---- MODULE Spec2Model ----
(***************************************************************************)
(* A model of the shell-task scheduling core: the Task state machine with  *)
(* its dependency resolver (scheduler/task.go), the priority queue         *)
(* (scheduler/priority_queue.go) and the worker pool                       *)
(* (scheduler/worker_pool.go).                                             *)
(*                                                                         *)
(* Every goroutine is a thread with a call stack of frames.  One step of a *)
(* thread is one access to shared memory (a lock section, an atomic, a     *)
(* channel operation, a read of a token's Done channel) together with the  *)
(* thread-local code around it.                                            *)
(***************************************************************************)
EXTENDS Integers, Sequences, FiniteSets, TLC

VARIABLES
    cfg,        \* the options every Task and the pool were constructed with
    task,       \* the Task objects: task[t] holds the fields of Task t
    wp,         \* the WorkerPool object
    tg,         \* the TaskGroup object
    tc,         \* the TaskContext objects the host program works on
    threads,    \* the goroutines: thread id -> call stack
    calls,      \* the API calls the host program has issued
    obs         \* observers of the run, no part of the program

vars == <<cfg, task, wp, tg, tc, threads, calls, obs>>

----------------------------------------------------------------------------
(* Bounds of the model *)

\* API calls on Tasks the host program issues in one behaviour
MaxCalls == 3
\* calls of one API function on one Task, where the host program drives a
\* dependency graph or a pool
MaxCallsPerTask == 1
\* job invocations of one Task that are followed
MaxInv == 2
\* API calls of a host program that runs a dependency graph again after Reset
MaxRerunCalls == 4
\* the items a priority queue on its own holds at most
MaxQueue == 4
\* the calls of Start, and of Stop, on a pool
MaxPoolCalls == 2
\* the calls of Submit for one Task, where it is submitted again
MaxSubmits == 2
\* the calls of RunAll, of StopAll and of RunAndWait on a TaskGroup
MaxGroupCalls == 1
\* how many calls the host program makes on TaskContext objects
MaxContextCalls == 3

----------------------------------------------------------------------------
(* Program constants *)

PriorityLow == 1
PriorityNormal == 5
PriorityHigh == 10

TaskStateIdle == "Idle"
TaskStateRunning == "Running"
TaskStatePaused == "Paused"
TaskStateCompleted == "Completed"
TaskStateFailed == "Failed"
TaskStateCancelled == "Cancelled"

Terminal == {TaskStateCompleted, TaskStateFailed, TaskStateCancelled}

TaskStatusPending == "Pending"
TaskStatusRunning == "Running"
TaskStatusCompleted == "Completed"
TaskStatusFailed == "Failed"
TaskStatusCancelled == "Cancelled"

Tasks == {1, 2, 3}
ThreadIds == 1 .. 10
\* the threads of the host program that call the API
HostThreads == {1, 2}
\* the goroutines WorkerPool.Start starts
SchedulerThread == 8
WorkerThreads == {9, 10}
ApiNames == {"Run", "Pause", "Resume", "Stop", "Reset", "Submit"}
NoVal == "absent"
NoErr == "none"
ErrTimeout == "operation timed out"
\* the error the job returns from its attempt-th attempt (counted from 0)
ErrOf(attempt) == <<"err1", "err2", "err3", "err4">>[attempt + 1]
\* ctx.Err() of a token that has fired
Canceled == "canceled"
\* context.DeadlineExceeded
DeadlineExceeded == "deadline exceeded"
\* fmt.Errorf("task timed out after %v: %w", t.timeout, jobCtx.Err())
TimedOut(timeout) == <<"timed out after 0", "timed out after 1", "timed out after 2">>[timeout + 1]
\* errors.Unwrap
Unwrap(err) ==
    IF err \in {TimedOut(0), TimedOut(1), TimedOut(2)} THEN DeadlineExceeded ELSE NoErr

----------------------------------------------------------------------------
(* Construction: NewTask and its options *)

\* t.retryStrategy == nil
NoStrategy == [nil |-> TRUE, delay |-> 0, maxRetries |-> 0, retryable |-> TRUE]
\* NewFixedDelayRetryStrategy(delay, maxRetries); retryable: ShouldRetry holds of
\* the errors of the job (every error, unless WithRetryableErrors names others)
NewFixedDelayRetryStrategy(delay, maxRetries, retryable) ==
    [nil |-> FALSE, delay |-> delay, maxRetries |-> maxRetries, retryable |-> retryable]

\* NewTask(WithName(name), WithJob(job)): every other field at its default.
\* The jobs: "ok" returns nil, "fail" an error, "any" either, "panic" panics,
\* "ctx" waits for its context to be cancelled and returns ctx.Err()
DefaultTask(name) ==
    [used |-> TRUE, name |-> name, deps |-> << >>, maxRuns |-> 0, retryTimes |-> 0,
     interval |-> 0, startupDelay |-> 0, cancelOnErr |-> FALSE,
     priority |-> PriorityNormal, syncExec |-> FALSE,
     retryStrategy |-> NoStrategy,
     job |-> "ok", sets |-> FALSE, withCtx |-> FALSE,
     callback |-> FALSE,       \* WithDependenciesCallback(callback), after the dependencies
     panics |-> "none",        \* the hook that can panic: contextPrep, preHook, postHook
     timeout |-> 0]

NoTask == [DefaultTask("") EXCEPT !.used = FALSE]

\* a scenario: the Tasks as a sequence of option records, the pool's size and
\* the order in which the host program submits the Tasks (<< >>: any order)
Scenario(opts, size, order) ==
    [tasks |-> [t \in Tasks |-> IF t <= Len(opts) THEN opts[t] ELSE NoTask],
     size |-> size, order |-> order, group |-> << >>, parent |-> FALSE,
     chain |-> << >>]

Range(s) == {s[i] : i \in 1 .. Len(s)}

Opt(t) == cfg.tasks[t]
\* AddTask(t) was called on the TaskGroup
InGroup(t) == t \in Range(cfg.group)
Used == {t \in Tasks : Opt(t).used}
\* ChainTasks(cfg.chain...) was called: the Task whose context the post-hook of
\* t is wrapped to fill, or 0
NextTask(t) ==
    IF \E i \in 1 .. Len(cfg.chain) - 1 : cfg.chain[i] = t
    THEN cfg.chain[1 + CHOOSE i \in 1 .. Len(cfg.chain) - 1 : cfg.chain[i] = t]
    ELSE 0

\* the Tasks whose DependsOn wrapped t.onStateChange, innermost wrapper first
Dependents(t) ==
    SelectSeq(<<1, 2, 3>>, LAMBDA d : Opt(d).used /\ t \in Range(Opt(d).deps))

\* DependsOn: one entry of dependenciesMap per predecessor name, set to false
DependsOn(opts, d) == [n \in {opts[p].name : p \in Range(opts[d].deps)} |-> FALSE]

NilContext == [nil |-> TRUE, values |-> << >>]
NewTaskContext == [nil |-> FALSE, values |-> << >>]

\* TaskContext.Get on a context without parent
CtxGet(c, k) == IF k \in DOMAIN c.values THEN c.values[k] ELSE NoVal
\* TaskContext.Set
CtxSet(c, k, v) ==
    [c EXCEPT !.values = [j \in DOMAIN c.values \cup {k} |->
                              IF j = k THEN v ELSE c.values[j]]]

\* the fields of a Task after NewTask
NewTask(opts, t) ==
    [state |-> TaskStateIdle,
     ctxDone |-> FALSE,                  \* t.ctx.Err() != nil, for the current token
     runCount |-> 0,
     lastError |-> NoErr,
     lastRunTime |-> 0,                  \* 0: the zero time.Time
     dependenciesMap |-> DependsOn(opts, t),
     onDependenciesMet |-> IF opts[t].callback THEN "user" ELSE "default",
                                         \* which closure is installed
     taskContext |-> IF opts[t].withCtx THEN NewTaskContext ELSE NilContext,
     postHook |-> << >>]                 \* the completion channels its wrappers close

NoDelivery == [prev |-> "none", old |-> "none", new |-> "none"]
\* what an iteration's executeJobWithRetry did: its job invocations, the
\* attempts its loop counted, whether it returned nil, whether a retry delay
\* was cut short by the token
NoIteration == [inv |-> 0, attempts |-> 0, ok |-> FALSE, cut |-> FALSE]

\* an attempt of the retry loop: whether its context ended by the deadline
\* before the job returned, and the err the loop went on with
NoAttempt == [expired |-> FALSE, err |-> "unset"]

ObsInit ==
    [jobInv |-> [t \in Tasks |-> 0],            \* job invocations since NewTask / Reset
     everCompleted |-> [t \in Tasks |-> FALSE], \* the Task has entered Completed
     cbLog |-> [t \in Tasks |-> NoDelivery],    \* the last state-change delivery
     seen |-> [t \in Tasks |-> "unread"],       \* what the job read under key x
     waiting |-> [t \in Tasks |-> FALSE],       \* Run() found a dependency unmet
     stopCalled |-> [t \in Tasks |-> FALSE],    \* Stop() has been called
     stopActed |-> [t \in Tasks |-> "none"],    \* the state Stop() read when it went on
     stopped |-> [t \in Tasks |-> FALSE],       \* Stop() returned, no Run/Reset since
     iters |-> [t \in Tasks |-> 0],             \* iterations begun
     iterInv |-> [t \in Tasks |-> 0],           \* job invocations of the iteration
     iterEnd |-> [t \in Tasks |-> NoIteration], \* the last finished retry loop
     errCalls |-> [t \in Tasks |-> 0],          \* calls of the error handler
     errArg |-> [t \in Tasks |-> NoErr],        \* the error of its last call
     everFailed |-> [t \in Tasks |-> FALSE],    \* the Task has entered Failed
     cut |-> [t \in Tasks |-> "none"],          \* the wait that saw the token fire
     metCalls |-> [t \in Tasks |-> 0],          \* listener calls of onDependenciesMet
     metTurns |-> [t \in Tasks |-> 0],          \* the map turned all-true in a listener
     called |-> [t \in Tasks |-> FALSE],       \* the callback of the host program was called
     attempt |-> [t \in Tasks |-> NoAttempt],   \* the last attempt that returned
     metric |-> [t \in Tasks |-> "unset"],      \* JobResult.Err of the last collectMetrics
     fresh |-> [t \in Tasks |-> FALSE],         \* Reset() of a terminal Task returned, and
                                                \* no call of the host began since or was
                                                \* in progress then
     deq |-> [flip |-> FALSE, task |-> 0],      \* what the last Dequeue returned (0: nil);
                                                \* flip changes with every Dequeue
     pool |-> [last |-> "none", twice |-> {}],  \* the last call on the pool, and the calls
                                                \* that directly followed a call of the same name
     underLock |-> {},                          \* the callbacks called by a goroutine that held
                                                \* the mutex of the TaskGroup
     waited |-> "unset",                        \* what RunAndWait returned
     late |-> [t \in Tasks |-> FALSE],          \* a call of the job began after Stop() had
                                                \* returned, no Run/Reset called since
     orphan |-> [t \in Tasks |-> FALSE],        \* Reset(), with no other call of the host in
                                                \* progress before it returned, returned while a
                                                \* run body was alive; no Run() called since
     closes |-> 0,                              \* the calls of close(wp.taskChan)
     sentClosed |-> FALSE,                      \* the scheduler sent on the closed taskChan
     refused |-> {},                            \* the Tasks a Submit found the pool not running for
     poolCut |-> {},                            \* the Tasks whose worker, waiting for done, saw
                                                \* the pool's token instead
     recCalls |-> [t \in Tasks |-> 0],          \* calls of the recovery hook
     recArg |-> [t \in Tasks |-> "none"],       \* the value of its last call
     firstJob |-> 0,                            \* the Task whose job was invoked first
     accepted |-> << >>]                        \* the Tasks Submit enqueued, in order

\* NewPriorityQueue
NewPriorityQueue == << >>

\* NewWorkerPool(size, logger)
NewWorkerPool(size) ==
    [size |-> IF size <= 0 THEN 1 ELSE size,
     running |-> FALSE,
     ctxDone |-> FALSE,              \* wp.ctx.Err() != nil
     mutex |-> FALSE,                \* wp.mutex is held (by Stop, which waits)
     taskQueue |-> NewPriorityQueue, \* the heap's items, as [task, priority]
     taskChan |-> << >>,             \* the buffered hand-off channel
     chanClosed |-> FALSE,
     tasks |-> << >>,                \* the task-info map: name -> status
     done |-> 0,                     \* the completion channels made so far
     doneClosed |-> {},              \* those of them that are closed
     taskErr |-> {},                 \* those whose worker's taskErr is set
     panicked |-> FALSE]             \* an unrecovered panic ended the program

NoCalls ==
    [total |-> 0, per |-> [t \in Tasks |-> [fn \in ApiNames |-> 0]],
     pool |-> [fn \in {"Start", "Stop"} |-> 0],
     group |-> [fn \in {"RunAll", "StopAll", "RunAndWait"} |-> 0],
     context |-> 0]

\* NewTaskGroup: no callbacks; mutex is not held.  The Tasks AddTask appended
\* are cfg.group; done and groupErr are the variables of RunAndWait its
\* callbacks write
NewTaskGroup ==
    [writer |-> 0,                  \* the goroutine holding mutex.Lock()
     readers |-> {},                \* the goroutines holding mutex.RLock()
     onAllCompleted |-> "nil",      \* "nil", or "close(done)" of RunAndWait
     onAnyFailed |-> "nil",         \* "nil", or "groupErr" of RunAndWait
     done |-> FALSE,                \* done is closed
     groupErr |-> NoErr]

\* two TaskContext objects: the host program works on 1; with cfg.parent,
\* WithParent made 2 the parent of 1
Nodes == {1, 2}

\* NewTaskContext as an object with its lock: no values; mutex is free
NewNode ==
    [values |-> {},                         \* the keys of tc.values
     writer |-> 0,                          \* the goroutine in mutex.Lock()
     held |-> FALSE,                        \* the writer has the lock
     readers |-> [th \in HostThreads |-> 0]] \* the RLock()s each goroutine holds

\* tc.parent, 0 for nil
Parent(n) == IF n = 1 /\ cfg.parent THEN 2 ELSE 0

InitWith(c) ==
    /\ cfg = c
    /\ task = [t \in Tasks |-> NewTask(c.tasks, t)]
    /\ wp = NewWorkerPool(c.size)
    /\ tg = NewTaskGroup
    /\ tc = [n \in Nodes |-> NewNode]
    /\ threads = [th \in ThreadIds |-> << >>]
    /\ calls = NoCalls
    /\ obs = ObsInit

----------------------------------------------------------------------------
(* Threads and frames *)

Frame(fn, t, pc, a, b, i) == [fn |-> fn, t |-> t, pc |-> pc, a |-> a, b |-> b, i |-> i]
NoLocals(fn, t, pc) == Frame(fn, t, pc, "", "", 0)
BodyFrame(t) == NoLocals("body", t, "prep")

Busy(th) == threads[th] # << >>
Top(th) == threads[th][Len(threads[th])]
\* thread th is to take its next step at pc of fn; a panic that nothing
\* recovers ends the program, and no goroutine takes another step
At(th, fn, pc) == ~wp.panicked /\ Busy(th) /\ Top(th).fn = fn /\ Top(th).pc = pc

ButLast(s) == SubSeq(s, 1, Len(s) - 1)

\* a function returns: its frame is popped, and so is every caller that has
\* nothing left to do but return
RECURSIVE Unwind(_)
Unwind(s) ==
    IF s = << >> THEN s
    ELSE IF s[Len(s)].pc = "ret" THEN Unwind(ButLast(s)) ELSE s

Return(s) == Unwind(ButLast(s))
\* the running function moves to pc and calls f
Call(s, pc, f) == Append([s EXCEPT ![Len(s)].pc = pc], f)
Goto(s, pc) == [s EXCEPT ![Len(s)].pc = pc]

Free == {th \in ThreadIds \ (HostThreads \cup {SchedulerThread} \cup WorkerThreads) : ~Busy(th)}
\* the slot a new goroutine working on Task t gets: goroutines are anonymous,
\* so the choice is fixed to keep one representative of the equivalent states
FreeSlot(t) ==
    IF 2 + t \in Free THEN 2 + t
    ELSE CHOOSE th \in Free : \A o \in Free : th >= o
\* go f()
Go(thr, f) == [thr EXCEPT ![FreeSlot(f.t)] = <<f>>]

----------------------------------------------------------------------------
(* Task.setState and the listeners DependsOn installs *)

\* setState's lock section: oldState := t.state; t.state = newState.  tk is
\* the Task store with the caller's own writes of this step, s the caller's
\* stack; the callback is left to be called outside the lock
SetState(th, s, tk, t, new) ==
    /\ task' = [tk EXCEPT ![t].state = new]
    /\ threads' = [threads EXCEPT ![th] =
                      Append(s, Frame("setState", t, "callback", new, task[t].state, 0))]
    /\ obs' = [obs EXCEPT !.everCompleted[t] = @ \/ (new = TaskStateCompleted),
                          !.everFailed[t] = @ \/ (new = TaskStateFailed)]

\* fmt.Errorf("panic: %v", r)
PanicError(r) ==
    CASE r = "job" -> "panic: job"
      [] r = "contextPrep" -> "panic: contextPrep"
      [] r = "preHook" -> "panic: preHook"
      [] r = "postHook" -> "panic: postHook"
      [] OTHER -> "panic: close of closed channel"

\* a panic with value r in the run body unwinds to the deferred handlePanic:
\* recover(), recoverHook(r), then setState(Failed)
Recovered(o, t, r) ==
    [o EXCEPT !.everFailed[t] = TRUE, !.recCalls[t] = @ + 1, !.recArg[t] = r]

Panic(th, s, tk, t, r) ==
    /\ task' = [tk EXCEPT ![t].state = TaskStateFailed]
    /\ threads' = [threads EXCEPT ![th] =
                      Append([s EXCEPT ![Len(s)].pc = "recover", ![Len(s)].a = r],
                             Frame("setState", t, "callback", TaskStateFailed,
                                   task[t].state, 0))]
    /\ obs' = Recovered(obs, t, r)

\* setState called after a step of its own (a state or token read)
SetStateSwap(th) ==
    /\ At(th, "setState", "swap")
    /\ SetState(th, ButLast(threads[th]), task, Top(th).t, Top(th).a)
    /\ UNCHANGED <<cfg, tc, tg, wp, calls>>

SetStateFrame(t, new) == Frame("setState", t, "swap", new, "", 0)

\* goroutine th holds the mutex of the TaskGroup
HoldsGroup(th) == tg.writer = th \/ th \in tg.readers

\* setState: t.onStateChange(oldState, newState), outside the lock; the
\* innermost callback is the one handed to the observer of the Task, around it
\* is the wrapper of AddTask, which calls tg.checkGroupCompletion(), and around
\* that the listeners of DependsOn
OnStateChange(th) ==
    /\ At(th, "setState", "callback")
    /\ LET f == Top(th)
           s == IF f.a = TaskStateCompleted /\ Dependents(f.t) # << >>
                THEN [threads[th] EXCEPT ![Len(threads[th])].pc = "listener",
                                         ![Len(threads[th])].i = 1]
                ELSE Goto(threads[th], "ret") IN
        /\ obs' = [obs EXCEPT !.cbLog[f.t] = [prev |-> @.new, old |-> f.b, new |-> f.a],
                              !.underLock = IF HoldsGroup(th) THEN @ \cup {"onStateChange"}
                                            ELSE @]
        /\ threads' = [threads EXCEPT ![th] =
                          IF InGroup(f.t)
                          THEN Append(s, NoLocals("checkGroupCompletion", f.t, "lock"))
                          ELSE Unwind(s)]
    /\ UNCHANGED <<cfg, tc, tg, task, wp, calls>>

\* transferContextFromDependency: nothing without both contexts, else the keys
\* the dependent lacks are copied
TransferContext(to, from) ==
    IF from.nil \/ to.nil THEN to
    ELSE [to EXCEPT !.values = [k \in DOMAIN to.values \cup DOMAIN from.values |->
                                   IF k \in DOMAIN to.values THEN to.values[k]
                                   ELSE from.values[k]]]

\* the post-hook ChainTasks installed on t: for every entry of
\* currentTask.taskContext.GetAll(), nextTask.taskContext.Set(k, v)
ChainCopy(tk, t) ==
    IF NextTask(t) = 0 \/ tk[t].taskContext.nil THEN tk
    ELSE [tk EXCEPT ![NextTask(t)].taskContext =
            [nil |-> FALSE,
             values |-> [k \in DOMAIN @.values \cup DOMAIN tk[t].taskContext.values |->
                            IF k \in DOMAIN tk[t].taskContext.values
                            THEN tk[t].taskContext.values[k]
                            ELSE @.values[k]]]]

\* areDependenciesMetLocked / the allMet loop of updateDependencyStatus
AllMet(m) == \A n \in DOMAIN m : m[n]

\* the listener of the i-th dependent d, called with newState = Completed:
\* d.transferContextFromDependency(task); d.updateDependencyStatus(task.name, true),
\* whose callback, called outside the lock, is d.Run() once Run installed it
Listener(th) ==
    /\ At(th, "setState", "listener")
    /\ LET f == Top(th)
           d == Dependents(f.t)[f.i]
           n == Opt(f.t).name
           m == IF n \in DOMAIN task[d].dependenciesMap
                THEN [task[d].dependenciesMap EXCEPT ![n] = TRUE]
                ELSE task[d].dependenciesMap
           more == f.i < Len(Dependents(f.t))
           g == [f EXCEPT !.i = f.i + 1, !.pc = IF more THEN "listener" ELSE "ret"]
           s == [threads[th] EXCEPT ![Len(threads[th])] = g] IN
        /\ task' = [task EXCEPT
                       ![d].taskContext = TransferContext(@, task[f.t].taskContext),
                       ![d].dependenciesMap = m]
        /\ threads' = [threads EXCEPT ![th] =
                          IF AllMet(m) /\ task[d].onDependenciesMet = "run"
                          THEN Append(s, NoLocals("Run", d, "check"))
                          ELSE Unwind(s)]
        /\ obs' = [obs EXCEPT
                      !.metCalls[d] = IF AllMet(m) THEN @ + 1 ELSE @,
                      !.called[d] = @ \/ (AllMet(m) /\ task[d].onDependenciesMet = "user"),
                      !.metTurns[d] = IF AllMet(m) /\ ~AllMet(task[d].dependenciesMap)
                                      THEN @ + 1 ELSE @]
    /\ UNCHANGED <<cfg, tc, tg, wp, calls>>

----------------------------------------------------------------------------
(* Task.Run *)

\* Run: currentState := t.GetState(); return if it is Running.  s is the stack
\* with the frame of Run on top
RunBegin(th, s) ==
    threads' = [threads EXCEPT ![th] =
                   IF task[s[Len(s)].t].state = TaskStateRunning THEN Return(s)
                   ELSE Goto(s, "deps")]

\* Run called from a callback or from the pool
RunCheck(th) ==
    /\ At(th, "Run", "check")
    /\ RunBegin(th, threads[th])
    /\ UNCHANGED <<cfg, tc, tg, task, wp, calls, obs>>

\* Run: t.AreDependenciesMet(); when met, t.setState(TaskStateRunning)
RunDeps(th) ==
    /\ At(th, "Run", "deps")
    /\ LET t == Top(th).t IN
        IF AllMet(task[t].dependenciesMap)
        THEN SetState(th, Goto(threads[th], "spawn"), task, t, TaskStateRunning)
        ELSE /\ threads' = [threads EXCEPT ![th] = Goto(@, "install")]
             /\ obs' = [obs EXCEPT !.waiting[t] = TRUE]
             /\ UNCHANGED task
    /\ UNCHANGED <<cfg, tc, tg, wp, calls>>

\* a WithOnDependenciesMet that only installs the closure and never calls it
InstallOnly(th) ==
    /\ At(th, "Run", "install")
    /\ task' = [task EXCEPT ![Top(th).t].onDependenciesMet = "run"]
    /\ threads' = [threads EXCEPT ![th] = Return(@)]
    /\ UNCHANGED <<cfg, tc, tg, wp, calls, obs>>

\* Run: t.WithOnDependenciesMet(func() { t.Run() }), which calls the closure at
\* once when the dependencies are met by now
WithOnDependenciesMet(th) ==
    /\ At(th, "Run", "install")
    /\ LET t == Top(th).t IN
        /\ task' = [task EXCEPT ![t].onDependenciesMet = "run"]
        /\ threads' = [threads EXCEPT ![th] =
                          IF AllMet(task[t].dependenciesMap)
                          THEN Call(@, "ret", NoLocals("Run", t, "check"))
                          ELSE Return(@)]
    /\ UNCHANGED <<cfg, tc, tg, wp, calls, obs>>

\* Run: after setState(Running), executeTaskSync() or go executeTaskAsync()
RunSpawn(th) ==
    /\ At(th, "Run", "spawn")
    /\ LET t == Top(th).t IN
        threads' = IF Opt(t).syncExec
                   THEN [threads EXCEPT ![th] = Call(@, "ret", BodyFrame(t))]
                   ELSE Go([threads EXCEPT ![th] = Return(@)], BodyFrame(t))
    /\ UNCHANGED <<cfg, tc, tg, task, wp, calls, obs>>

----------------------------------------------------------------------------
(* Pause, Resume, Stop, Reset *)

\* Pause: return false unless the state read is Running; setState(Paused)
PauseBegin(th, s) ==
    threads' = [threads EXCEPT ![th] =
                   IF task[s[Len(s)].t].state # TaskStateRunning THEN Return(s)
                   ELSE Call(s, "ret", SetStateFrame(s[Len(s)].t, TaskStatePaused))]

\* Resume: return false unless the state read is Paused; setState(Running)
ResumeBegin(th, s) ==
    threads' = [threads EXCEPT ![th] =
                   IF task[s[Len(s)].t].state # TaskStatePaused THEN Return(s)
                   ELSE Call(s, "ret", SetStateFrame(s[Len(s)].t, TaskStateRunning))]

\* Stop: return when the state read is Cancelled or Completed, or when the
\* token has fired; else setState(Cancelled), then cancelFunc()
StopBegin(th, s) ==
    LET t == s[Len(s)].t
        returns == task[t].state \in {TaskStateCancelled, TaskStateCompleted}
                   \/ task[t].ctxDone IN
    /\ threads' = [threads EXCEPT ![th] =
                      IF returns THEN Return(s)
                      ELSE Call(s, "cancel", SetStateFrame(t, TaskStateCancelled))]
    /\ obs' = [obs EXCEPT !.stopCalled[t] = TRUE, !.fresh[t] = FALSE,
                          !.stopActed[t] = IF returns THEN @ ELSE task[t].state,
                          !.stopped[t] = @ \/ returns]

\* Stop called from Reset or from a worker of the pool
StopCheck(th) ==
    /\ At(th, "Stop", "check")
    /\ StopBegin(th, threads[th])
    /\ UNCHANGED <<cfg, tc, tg, task, wp, calls>>

\* t.cancelFunc(), the last statement of Stop, checkMaxRuns and the
\* cancel-on-failure branch of handleJobResult
CancelFunc(th) ==
    /\ Busy(th) /\ At(th, Top(th).fn, "cancel")
    /\ task' = [task EXCEPT ![Top(th).t].ctxDone = TRUE]
    /\ threads' = [threads EXCEPT ![th] = Return(@)]
    /\ obs' = [obs EXCEPT !.stopped[Top(th).t] = @ \/ (Top(th).fn = "Stop")]
    /\ UNCHANGED <<cfg, tc, tg, wp, calls>>

\* Reset: Stop() first when the state read is Running; the frame keeps the
\* state read, whether no other call of the host was in progress, and the
\* number of this call among the calls of the host
ResetBegin(th, s) ==
    LET read == [s EXCEPT ![Len(s)].a = task[s[Len(s)].t].state,
                          ![Len(s)].i = calls.total + 1,
                          ![Len(s)].b = IF \A h \in HostThreads \ {th} : ~Busy(h)
                                        THEN "alone" ELSE ""] IN
    threads' = [threads EXCEPT ![th] =
                   IF task[s[Len(s)].t].state = TaskStateRunning
                   THEN Call(read, "reset", NoLocals("Stop", s[Len(s)].t, "check"))
                   ELSE Goto(read, "reset")]

\* Reset: the lock section that installs Idle, no error, a fresh token and run
\* count 0
ResetState(th) ==
    /\ At(th, "Reset", "reset")
    /\ LET t == Top(th).t IN
        /\ task' = [task EXCEPT ![t].state = TaskStateIdle, ![t].lastError = NoErr,
                                ![t].lastRunTime = 0,
                                ![t].ctxDone = FALSE, ![t].runCount = 0]
        /\ obs' = [obs EXCEPT !.jobInv[t] = 0, !.stopped[t] = FALSE, !.iters[t] = 0,
                              !.fresh[t] = Top(th).a \in Terminal /\ Top(th).b = "alone"
                                           /\ \A h \in HostThreads \ {th} : ~Busy(h),
                              !.orphan[t] = /\ Top(th).b = "alone"
                                            /\ Top(th).i = calls.total
                                            /\ \E o \in ThreadIds : \E k \in 1 .. Len(threads[o]) :
                                                  threads[o][k].fn = "body" /\ threads[o][k].t = t,
                              !.iterInv[t] = 0, !.iterEnd[t] = NoIteration,
                              !.errCalls[t] = 0, !.errArg[t] = NoErr]
    /\ threads' = [threads EXCEPT ![th] = Return(@)]
    /\ UNCHANGED <<cfg, tc, tg, wp, calls>>

----------------------------------------------------------------------------
(* The host program: calls of the Task API *)

\* a host thread that is not inside a call makes the next one; the lowest
\* idle host thread makes it, the threads of the host being interchangeable
HostCalls(h, fn, t) ==
    /\ h \in HostThreads /\ ~Busy(h)
    /\ \A o \in HostThreads : o < h => Busy(o)
    /\ t \in Used
    /\ calls' = [calls EXCEPT !.total = @ + 1, !.per[t][fn] = @ + 1]

ApiRun(h, t) ==
    /\ HostCalls(h, "Run", t)
    /\ RunBegin(h, <<NoLocals("Run", t, "check")>>)
    /\ obs' = [obs EXCEPT !.stopped[t] = FALSE, !.fresh[t] = FALSE, !.orphan[t] = FALSE]
    /\ UNCHANGED <<cfg, tc, tg, task, wp>>

ApiPause(h, t) ==
    /\ HostCalls(h, "Pause", t)
    /\ PauseBegin(h, <<NoLocals("Pause", t, "check")>>)
    /\ obs' = [obs EXCEPT !.fresh[t] = FALSE]
    /\ UNCHANGED <<cfg, tc, tg, task, wp>>

ApiResume(h, t) ==
    /\ HostCalls(h, "Resume", t)
    /\ ResumeBegin(h, <<NoLocals("Resume", t, "check")>>)
    /\ obs' = [obs EXCEPT !.fresh[t] = FALSE]
    /\ UNCHANGED <<cfg, tc, tg, task, wp>>

ApiStop(h, t) ==
    /\ HostCalls(h, "Stop", t)
    /\ StopBegin(h, <<NoLocals("Stop", t, "check")>>)
    /\ UNCHANGED <<cfg, tc, tg, task, wp>>

ApiReset(h, t) ==
    /\ HostCalls(h, "Reset", t)
    /\ ResetBegin(h, <<NoLocals("Reset", t, "check")>>)
    /\ UNCHANGED <<cfg, tc, tg, task, wp, obs>>

----------------------------------------------------------------------------
(* The run body: executeTaskCore *)

\* the value the job of t stores under key x
ValueOf(t) == <<"v1", "v2", "v3">>[t]

\* how a call of t.job can end
Outcomes(job) ==
    IF job = "ok" THEN {"ok"}
    ELSE IF job = "fail" THEN {"err"}
    ELSE IF job = "panic" THEN {"panic"}
    ELSE IF job = "ctx" THEN {"canceled"}
    ELSE {"ok", "err"}

\* getMaxRetries: the strategy's MaxRetries() when one is set, else retryTimes
GetMaxRetries(t) ==
    IF Opt(t).retryStrategy.nil THEN Opt(t).retryTimes ELSE Opt(t).retryStrategy.maxRetries

\* FixedDelayRetryStrategy.NextRetryDelay
NextRetryDelay(st, attempt) == IF attempt >= st.maxRetries THEN 0 ELSE st.delay

\* a shouldRetry that lets every failed attempt be followed by another
ShouldRetryAlways(t, attempt) == "now"

\* shouldRetry up to its wait: "no" (return false), "now" (return true at once,
\* without a strategy) or "wait" (the select on the token and the delay)
ShouldRetry(t, attempt) ==
    IF attempt >= GetMaxRetries(t) THEN "no"
    ELSE IF Opt(t).retryStrategy.nil THEN "now"
    ELSE IF ~Opt(t).retryStrategy.retryable THEN "no"
    ELSE IF NextRetryDelay(Opt(t).retryStrategy, attempt) = 0 THEN "no"
    ELSE "wait"

\* the err of an attempt whose job ended with out, as if no deadline existed
AttemptErrorOfJob(t, out, attempt, expired) ==
    IF out = "ok" THEN NoErr
    ELSE IF out = "canceled" THEN Canceled
    ELSE ErrOf(attempt)

\* executeJobWithRetry: the err of an attempt whose job ended with out; when
\* jobCtx.Err() is DeadlineExceeded it is the timed-out error, whatever the
\* job returned
AttemptError(t, out, attempt, expired) ==
    IF expired THEN TimedOut(Opt(t).timeout)
    ELSE IF out = "ok" THEN NoErr
    ELSE IF out = "canceled" THEN Canceled
    ELSE ErrOf(attempt)

\* what the observer notes when an attempt returned with err: the attempt, and
\* the result handed to collectMetrics
Attempted(o, t, expired, err) ==
    [o EXCEPT !.attempt[t] = [expired |-> expired, err |-> err], !.metric[t] = err]

\* a call of Reset() on t is in progress
Resetting(t) ==
    \E h \in HostThreads : \E k \in 1 .. Len(threads[h]) :
        threads[h][k].fn = "Reset" /\ threads[h][k].t = t

\* executeJobWithRetry: createJobContext, then err = t.job(jobCtx) is called;
\* the job reads key x.  When called from the job's return (a retry at once)
\* the stack holds the attempt that failed and its err
InvokeJob(th, s, tk, attempt) ==
    LET t == s[Len(s)].t
        o == IF s[Len(s)].pc = "jobret"
             THEN Attempted(obs, t, s[Len(s)].b = "deadline", s[Len(s)].a)
             ELSE obs IN
    /\ obs.jobInv[t] < MaxInv
    /\ obs' = [o EXCEPT !.jobInv[t] = @ + 1,
                          !.late[t] = @ \/ (obs.stopped[t] /\ ~Resetting(t)),
                          !.iters[t] = IF attempt = 0 THEN @ + 1 ELSE @,
                          !.iterInv[t] = IF attempt = 0 THEN 1 ELSE @ + 1,
                          !.seen[t] = CtxGet(tk[t].taskContext, "x"),
                          !.firstJob = IF @ = 0 THEN t ELSE @]
    /\ threads' = [threads EXCEPT ![th] =
                      [s EXCEPT ![Len(s)].pc = "jobret", ![Len(s)].i = attempt,
                                ![Len(s)].a = "", ![Len(s)].b = ""]]
    /\ task' = [tk EXCEPT ![t].lastRunTime = IF attempt = 0 THEN 1 ELSE @]

\* the body begins to wait at pc, in a select on the token and a timer; the
\* frame notes whether the token had fired before the wait began
Wait(s, pc, fired) ==
    [s EXCEPT ![Len(s)].pc = pc, ![Len(s)].b = IF fired THEN "fired" ELSE ""]

\* executeMainLoop: handleCancellation when the token has fired, else
\* executeOneIteration up to the first call of the job.  The observer notes
\* the wait ("delay", "wait") during which the token fired
ExecuteMainLoop(th, s, tk) ==
    LET t == s[Len(s)].t IN
    IF tk[t].ctxDone
    THEN /\ threads' = [threads EXCEPT ![th] =
                           Call(s, "ret", SetStateFrame(t, TaskStateCancelled))]
         /\ task' = tk
         /\ obs' = [obs EXCEPT !.cut[t] =
                       IF s[Len(s)].pc \in {"delay", "wait"} /\ s[Len(s)].b = ""
                       THEN s[Len(s)].pc ELSE @]
    ELSE \/ Opt(t).panics = "preHook" /\ Panic(th, s, tk, t, "preHook")
         \/ InvokeJob(th, s, tk, 0)

\* executeTaskCore: prepareContext, handleStartupDelay, then the main loop
ExecuteTaskCore(th) ==
    /\ At(th, "body", "prep")
    /\ LET t == Top(th).t
           tk == [task EXCEPT ![t].taskContext = IF @.nil THEN NewTaskContext ELSE @] IN
        \/ Opt(t).panics = "contextPrep" /\ Panic(th, threads[th], tk, t, "contextPrep")
        \/ IF Opt(t).startupDelay > 0
           THEN /\ task' = tk
                /\ threads' = [threads EXCEPT ![th] = Wait(@, "delay", task[t].ctxDone)]
                /\ UNCHANGED obs
           ELSE ExecuteMainLoop(th, threads[th], tk)
    /\ UNCHANGED <<cfg, tc, tg, wp, calls>>

\* handleStartupDelay: select on t.ctx.Done() and time.After(startupDelay);
\* after the timer the main loop reads the token again
HandleStartupDelay(th) ==
    /\ At(th, "body", "delay")
    /\ ExecuteMainLoop(th, threads[th], task)
    /\ UNCHANGED <<cfg, tc, tg, wp, calls>>

\* a checkMaxRuns that never finds the maximum reached
CheckMaxRunsUnbounded(th, s, tk) ==
    LET t == s[Len(s)].t
        counted == [tk EXCEPT ![t].runCount = @ + 1] IN
    IF Opt(t).interval <= 0
    THEN SetState(th, Goto(s, "ret"), counted, t, TaskStateCompleted)
    ELSE /\ task' = counted
         /\ threads' = [threads EXCEPT ![th] = Wait(s, "wait", tk[t].ctxDone)]
         /\ UNCHANGED obs

\* a checkMaxRuns that compares the run count and does not add to it
CheckMaxRunsNoCount(th, s, tk) ==
    LET t == s[Len(s)].t IN
    IF Opt(t).maxRuns > 0 /\ tk[t].runCount >= Opt(t).maxRuns
    THEN SetState(th, Goto(s, "cancel"), tk, t, TaskStateCompleted)
    ELSE IF Opt(t).interval <= 0
    THEN SetState(th, Goto(s, "ret"), tk, t, TaskStateCompleted)
    ELSE /\ task' = tk
         /\ threads' = [threads EXCEPT ![th] = Wait(s, "wait", tk[t].ctxDone)]
         /\ UNCHANGED obs

\* checkMaxRuns, and the end of executeOneIteration: a Task without interval
\* completes, a periodic one waits
CheckMaxRuns(th, s, tk) ==
    LET t == s[Len(s)].t
        newCount == tk[t].runCount + 1
        counted == [tk EXCEPT ![t].runCount = newCount] IN
    IF Opt(t).maxRuns > 0 /\ newCount >= Opt(t).maxRuns
    THEN SetState(th, Goto(s, "cancel"), counted, t, TaskStateCompleted)
    ELSE IF Opt(t).interval <= 0
    THEN SetState(th, Goto(s, "ret"), counted, t, TaskStateCompleted)
    ELSE /\ task' = counted
         /\ threads' = [threads EXCEPT ![th] = Wait(s, "wait", tk[t].ctxDone)]
         /\ UNCHANGED obs

\* executeOneIteration after handleJobResult: t.postHook(), when one is set
PostHookOrCount(th, s, tk) ==
    \/ Opt(s[Len(s)].t).panics = "postHook" /\ Panic(th, s, tk, s[Len(s)].t, "postHook")
    \/ IF tk[s[Len(s)].t].postHook = << >> /\ NextTask(s[Len(s)].t) = 0
       THEN CheckMaxRuns(th, s, tk)
       ELSE /\ task' = tk
            /\ threads' = [threads EXCEPT ![th] = Goto(s, "post")]
            /\ UNCHANGED obs

\* a handleJobResult that stores the error and does not call the error handler
JobResultSilent(th, tk, err, cut) ==
    LET f == Top(th)
        t == f.t IN
    /\ task' = IF err = NoErr THEN tk ELSE [tk EXCEPT ![t].lastError = err]
    /\ obs' = [obs EXCEPT
                  !.iterEnd[t] = [inv |-> obs.iterInv[t], attempts |-> f.i + 1,
                                  ok |-> err = NoErr, cut |-> cut]]
    /\ UNCHANGED wp
    /\ threads' = [threads EXCEPT ![th] =
                      [@ EXCEPT ![Len(@)].pc = "result", ![Len(@)].a = err]]

\* executeJobWithRetry returns err (NoErr: nil) and handleJobResult begins:
\* with an error, t.lastError = err in its lock section and errorHandler(err),
\* which in the pool sets the worker's taskErr.  cut: a retry delay was cut
\* short by the token
JobResult(th, tk, err, cut) ==
    LET f == Top(th)
        t == f.t
        o == IF cut THEN obs ELSE Attempted(obs, t, f.b = "deadline", err) IN
    /\ task' = IF err = NoErr THEN tk ELSE [tk EXCEPT ![t].lastError = err]
    /\ obs' = [o EXCEPT
                  !.iterEnd[t] = [inv |-> obs.iterInv[t], attempts |-> f.i + 1,
                                  ok |-> err = NoErr, cut |-> cut],
                  !.cut[t] = IF cut /\ f.b = "" THEN "retry" ELSE @,
                  !.errCalls[t] = IF err = NoErr THEN @ ELSE @ + 1,
                  !.errArg[t] = IF err = NoErr THEN @ ELSE err]
    /\ wp' = IF err = NoErr THEN wp
             ELSE [wp EXCEPT !.taskErr = @ \cup Range(task[t].postHook)]
    /\ threads' = [threads EXCEPT ![th] =
                      [@ EXCEPT ![Len(@)].pc = "result", ![Len(@)].a = err]]

\* the job returns or panics; after an error shouldRetry decides on another
\* attempt.  A panic unwinds to the deferred handlePanic: setState(Failed)
JobReturn(th) ==
    /\ At(th, "body", "jobret")
    /\ LET f == Top(th)
           t == f.t
           tk == [task EXCEPT ![t].taskContext =
                     IF Opt(t).sets THEN CtxSet(@, "x", ValueOf(t)) ELSE @] IN
        \E out \in Outcomes(Opt(t).job) :
            /\ out = "canceled" => (task[t].ctxDone \/ f.b = "deadline")
            /\ IF out = "panic"
               THEN Panic(th, threads[th], tk, t, "job") /\ UNCHANGED wp
               ELSE LET err == AttemptError(t, out, f.i, f.b = "deadline")
                        retry == ShouldRetry(t, f.i) IN
                    IF err = NoErr \/ retry = "no" THEN JobResult(th, tk, err, FALSE)
                    ELSE IF retry = "now"
                    THEN /\ InvokeJob(th, [threads[th] EXCEPT ![Len(threads[th])].a = err],
                                      tk, f.i + 1)
                         /\ UNCHANGED wp
                    ELSE /\ task' = tk
                         /\ threads' = [threads EXCEPT ![th] =
                                [Wait(@, "retrywait", task[t].ctxDone) EXCEPT
                                    ![Len(@)].a = err]]
                         /\ obs' = Attempted(obs, t, f.b = "deadline", err)
                         /\ UNCHANGED wp
    /\ UNCHANGED <<cfg, tc, tg, calls>>

\* the timer of context.WithTimeout(t.ctx, t.timeout) ends the context of the
\* attempt in progress, unless the token of the Task did so before
DeadlineExpires(th) ==
    /\ At(th, "body", "jobret")
    /\ Opt(Top(th).t).timeout > 0
    /\ ~task[Top(th).t].ctxDone /\ Top(th).b = ""
    /\ threads' = [threads EXCEPT ![th] = [@ EXCEPT ![Len(@)].b = "deadline"]]
    /\ UNCHANGED <<cfg, tc, tg, task, wp, calls, obs>>

\* shouldRetry with a strategy: select on t.ctx.Done() and time.After(delay);
\* after the token the loop ends with the error of the failed attempt, after
\* the timer the job is called again
RetryWait(th) ==
    /\ At(th, "body", "retrywait")
    /\ IF task[Top(th).t].ctxDone
       THEN JobResult(th, task, Top(th).a, TRUE)
       ELSE InvokeJob(th, threads[th], task, Top(th).i + 1) /\ UNCHANGED wp
    /\ UNCHANGED <<cfg, tc, tg, calls>>

\* a handleJobResult that goes on after an error whatever cancelOnErr says
HandleJobResultContinue(th) ==
    /\ At(th, "body", "result")
    /\ PostHookOrCount(th, threads[th], task)
    /\ UNCHANGED <<cfg, tc, tg, wp, calls>>

\* handleJobResult after the error handler, and executeOneIteration after it:
\* with an error and cancelOnErr setState(Failed), then cancelFunc(); else the
\* post hook and checkMaxRuns
HandleJobResult(th) ==
    /\ At(th, "body", "result")
    /\ IF Top(th).a # NoErr /\ Opt(Top(th).t).cancelOnErr
       THEN SetState(th, Goto(threads[th], "cancel"), task, Top(th).t, TaskStateFailed)
       ELSE PostHookOrCount(th, threads[th], task)
    /\ UNCHANGED <<cfg, tc, tg, wp, calls>>

\* the first wrapper of the post hook that closes a channel closed before
FirstClosed(hook, closed) ==
    IF \E k \in 1 .. Len(hook) : hook[k] \in closed
    THEN CHOOSE k \in 1 .. Len(hook) :
            hook[k] \in closed /\ \A j \in 1 .. k - 1 : hook[j] \notin closed
    ELSE 0

\* t.postHook(): the wrappers the workers installed close their completion
\* channels, innermost first.  Closing a closed channel panics, and the
\* deferred handlePanic recovers: setState(Failed)
PostHook(th) ==
    /\ At(th, "body", "post")
    /\ LET t == Top(th).t
           hook == task[t].postHook
           k == FirstClosed(hook, wp.doneClosed) IN
        IF k = 0
        THEN /\ wp' = [wp EXCEPT !.doneClosed = @ \cup Range(hook)]
             /\ CheckMaxRuns(th, threads[th], ChainCopy(task, t))
        ELSE /\ wp' = [wp EXCEPT !.doneClosed = @ \cup {hook[j] : j \in 1 .. k - 1}]
             /\ Panic(th, threads[th], ChainCopy(task, t), t, "close")
    /\ UNCHANGED <<cfg, tc, tg, calls>>

\* a handlePanic that leaves the last error as it was
HandlePanicKeepsError(th) ==
    /\ At(th, "body", "recover")
    /\ threads' = [threads EXCEPT ![th] = Return(@)]
    /\ UNCHANGED <<cfg, tc, tg, task, wp, calls, obs>>

\* handlePanic after setState(Failed): t.lastError = "panic: ..."
HandlePanic(th) ==
    /\ At(th, "body", "recover")
    /\ task' = [task EXCEPT ![Top(th).t].lastError = PanicError(Top(th).a)]
    /\ threads' = [threads EXCEPT ![th] = Return(@)]
    /\ UNCHANGED <<cfg, tc, tg, wp, calls, obs>>

\* waitForNextRun: select on t.ctx.Done() and time.After(interval); after the
\* timer the main loop reads the token again
WaitForNextRun(th) ==
    /\ At(th, "body", "wait")
    /\ ExecuteMainLoop(th, threads[th], task)
    /\ UNCHANGED <<cfg, tc, tg, wp, calls>>

----------------------------------------------------------------------------
(* The Task alone: one Task and the threads of the host program *)

\* a thread's next step in the code of Task
TaskStep(th) ==
    \/ SetStateSwap(th)
    \/ OnStateChange(th)
    \/ RunDeps(th)
    \/ RunSpawn(th)
    \/ StopCheck(th)
    \/ CancelFunc(th)
    \/ ResetState(th)
    \/ ExecuteTaskCore(th)
    \/ HandleStartupDelay(th)
    \/ JobReturn(th)
    \/ HandleJobResult(th)
    \/ WaitForNextRun(th)

OneShot == [DefaultTask("A") EXCEPT !.maxRuns = 1]
Periodic ==
    [DefaultTask("A") EXCEPT !.startupDelay = 1, !.interval = 1, !.job = "any",
                             !.cancelOnErr = TRUE]

TaskScenarios == {Scenario(<<o>>, 1, << >>) : o \in {OneShot, Periodic}}

Init == \E c \in TaskScenarios : InitWith(c)

Next ==
    \/ \E h \in HostThreads, t \in Tasks : calls.total < MaxCalls /\ ApiRun(h, t)
    \/ \E h \in HostThreads, t \in Tasks : calls.total < MaxCalls /\ ApiPause(h, t)
    \/ \E h \in HostThreads, t \in Tasks : calls.total < MaxCalls /\ ApiResume(h, t)
    \/ \E h \in HostThreads, t \in Tasks : calls.total < MaxCalls /\ ApiStop(h, t)
    \/ \E h \in HostThreads, t \in Tasks : calls.total < MaxCalls /\ ApiReset(h, t)
    \/ \E th \in ThreadIds : TaskStep(th)

Spec == Init /\ [][Next]_vars

----------------------------------------------------------------------------
(* Properties of the Task alone *)

\* the threads that are inside the job of t
InJob(t) == {th \in ThreadIds : \E k \in 1 .. Len(threads[th]) :
                threads[th][k].fn = "body" /\ threads[th][k].t = t
                /\ threads[th][k].pc = "jobret"}

\* C1: for every interleaving of Run, Pause, Resume and Stop at most one run
\* body of a Task executes at any time, and therefore at most one invocation of
\* its job; stated on the job invocations
C1_OneJobAtATime == \A t \in Tasks : Cardinality(InJob(t)) <= 1

\* C3: with maxRuns = M > 0 and retry bound R the job is invoked at most
\* M * (R + 1) times since construction or the last Reset
C3_InvocationBound ==
    \A t \in Tasks :
        (Opt(t).used /\ Opt(t).maxRuns > 0)
            => obs.jobInv[t] <= Opt(t).maxRuns * (GetMaxRetries(t) + 1)

\* C4: a Task in Completed, Failed or Cancelled stays in that state until Reset
\* (the only operation that installs Idle) changes it
C4_TerminalStays ==
    [][\A t \in Tasks :
          task[t].state \in Terminal => task'[t].state \in {task[t].state, TaskStateIdle}]_vars

\* C5: every pair delivered to the state-change callback has old # new, and its
\* old is the new of the delivery before it
C5_DeliveriesChain ==
    \A t \in Tasks :
        obs.cbLog[t].new # "none" =>
            /\ obs.cbLog[t].old # obs.cbLog[t].new
            /\ obs.cbLog[t].prev # "none" => obs.cbLog[t].old = obs.cbLog[t].prev

\* C38: after Reset() returned on a Task whose previous run body had not
\* exited, and until Run() is called, that run body calls the job no more and
\* does not increment the run count
C38_OldBodyIsDead ==
    \A t \in Tasks : obs.orphan[t] => (obs.jobInv[t] = 0 /\ task[t].runCount = 0)

\* C23: after Reset() of a Task whose state it read as Completed, Failed or
\* Cancelled, and until the host calls Run(), Stop(), Pause() or Resume(), the
\* Task is as NewTask left it: Idle, run count 0, no last error, zero last-run
\* time, token not fired
C23_ResetIsFresh ==
    \A t \in Tasks :
        obs.fresh[t] =>
            /\ task[t].state = TaskStateIdle
            /\ task[t].runCount = 0
            /\ task[t].lastError = NoErr
            /\ task[t].lastRunTime = 0
            /\ ~task[t].ctxDone

----------------------------------------------------------------------------
(* Stopping: a Task that the host program runs, pauses, resumes and stops,   *)
(* and never resets                                                          *)

StopStep(th) ==
    \/ SetStateSwap(th)
    \/ OnStateChange(th)
    \/ RunDeps(th)
    \/ RunSpawn(th)
    \/ CancelFunc(th)
    \/ ExecuteTaskCore(th)
    \/ HandleStartupDelay(th)
    \/ JobReturn(th)
    \/ HandleJobResult(th)
    \/ WaitForNextRun(th)

\* a call of fn on Task t is in progress on a thread of the host
InCall(t, fn) ==
    \E h \in HostThreads : \E k \in 1 .. Len(threads[h]) :
        threads[h][k].fn = fn /\ threads[h][k].t = t

\* the host calls Run() and Stop() of a Task one after the other, as the
\* tests do; Pause() and Resume() may come from another goroutine at any time
StopNext ==
    \/ \E h \in HostThreads, t \in Tasks :
          /\ calls.per[t]["Run"] < MaxCallsPerTask /\ ~InCall(t, "Stop")
          /\ ApiRun(h, t)
    \/ \E h \in HostThreads, t \in Tasks :
          calls.per[t]["Pause"] < MaxCallsPerTask /\ ApiPause(h, t)
    \/ \E h \in HostThreads, t \in Tasks :
          calls.per[t]["Resume"] < MaxCallsPerTask /\ ApiResume(h, t)
    \/ \E h \in HostThreads, t \in Tasks :
          /\ calls.per[t]["Stop"] < MaxCallsPerTask /\ ~InCall(t, "Run")
          /\ ApiStop(h, t)
    \/ \E th \in ThreadIds : StopStep(th)

\* the Go scheduler runs every goroutine that can take a step, and every call
\* of the job returns
FairStopSpec == Init /\ [][StopNext]_vars /\ WF_vars(\E th \in ThreadIds : StopStep(th))

\* C13: once a call of Stop() has returned and no Run() or Reset() follows
\* (obs.stopped), the state of the Task eventually is, and from then on
\* remains, one of Completed, Failed and Cancelled
C13_StoppedEndsTerminal ==
    \A t \in Tasks : <>[](obs.stopped[t] => task[t].state \in Terminal)

----------------------------------------------------------------------------
(* One run: a Task of any configuration that the host program starts once    *)
(* and may stop once                                                         *)

\* WithRetry(n) and WithRetryStrategy(strategy), as <<retryTimes, retryStrategy>>
Retries ==
    {<<0, NoStrategy>>, <<1, NoStrategy>>,
     <<1, NewFixedDelayRetryStrategy(1, 1, TRUE)>>,
     <<1, NewFixedDelayRetryStrategy(0, 1, TRUE)>>,
     <<1, NewFixedDelayRetryStrategy(1, 1, FALSE)>>}

\* WithRepeat(interval) and WithMaxRuns(n), as <<interval, maxRuns>>
Repeats == {<<0, 0>>, <<0, 1>>, <<1, 0>>, <<1, 2>>}

RunTasks ==
    {[DefaultTask("A") EXCEPT !.job = j, !.cancelOnErr = c, !.startupDelay = d,
                              !.interval = r[1], !.maxRuns = r[2],
                              !.retryTimes = k[1], !.retryStrategy = k[2]] :
        j \in {"ok", "fail", "any", "panic", "ctx"}, c \in BOOLEAN, d \in {0, 1},
        r \in Repeats, k \in Retries}

RunScenarios == {Scenario(<<o>>, 1, << >>) : o \in RunTasks}

RunInit == \E c \in RunScenarios : InitWith(c)

RunStep(th) ==
    \/ SetStateSwap(th)
    \/ OnStateChange(th)
    \/ RunDeps(th)
    \/ RunSpawn(th)
    \/ CancelFunc(th)
    \/ ExecuteTaskCore(th)
    \/ HandleStartupDelay(th)
    \/ JobReturn(th)
    \/ RetryWait(th)
    \/ HandleJobResult(th)
    \/ HandlePanic(th)
    \/ WaitForNextRun(th)

RunNext ==
    \/ \E h \in HostThreads, t \in Tasks : calls.per[t]["Run"] = 0 /\ ApiRun(h, t)
    \/ \E h \in HostThreads, t \in Tasks : calls.per[t]["Stop"] = 0 /\ ApiStop(h, t)
    \/ \E th \in ThreadIds : RunStep(th)

RunSpec == RunInit /\ [][RunNext]_vars

-----------------------------------------------------------------------------
(* A chain: Tasks of one run linked with ChainTasks and started in order *)

\* every job stores its value under key x (and reads key x first); the Tasks
\* are built with or without WithTaskContext
ChainScenarios ==
    {[Scenario(SubSeq([t \in 1 .. 3 |->
                          [DefaultTask(<<"t1", "t2", "t3">>[t]) EXCEPT
                              !.sets = TRUE, !.withCtx = w]], 1, n), 1, << >>)
        EXCEPT !.chain = SubSeq(<<1, 2, 3>>, 1, n)] : w \in BOOLEAN, n \in 2 .. 3}

ChainInit == \E c \in ChainScenarios : InitWith(c)

ChainStep(th) ==
    \/ OnStateChange(th)
    \/ RunDeps(th)
    \/ RunSpawn(th)
    \/ ExecuteTaskCore(th)
    \/ JobReturn(th)
    \/ HandleJobResult(th)
    \/ PostHook(th)

\* for _, task := range tasks { task.Run() }
ChainNext ==
    \/ \E t \in Tasks :
        /\ calls.per[t]["Run"] = 0
        /\ \A p \in Tasks : p < t => calls.per[p]["Run"] = 1
        /\ ApiRun(1, t)
    \/ \E th \in ThreadIds : ChainStep(th)

ChainSpec == ChainInit /\ [][ChainNext]_vars

\* C32: Tasks linked with ChainTasks and started with Run() one directly after
\* the other: the job of the next Task reads from its context the entry the
\* job of the Task before it wrote
C32_NextReadsWhatWasWritten ==
    \A t \in Tasks :
        (NextTask(t) # 0 /\ obs.seen[NextTask(t)] # "unread")
            => obs.seen[NextTask(t)] = ValueOf(t)

\* C37: after Stop() on a Task has returned, and until Run() or Reset() is
\* called, no call of the Task's job begins, whatever the retry configuration
C37_NoJobAfterStop == \A t \in Tasks : ~obs.late[t]

\* the runs of the Tasks with WithRepeat and WithMaxRuns; the Go scheduler
\* runs every goroutine that can take a step
PeriodicInit ==
    \E c \in {x \in RunScenarios : x.tasks[1].interval > 0 /\ x.tasks[1].maxRuns > 0} :
        InitWith(c)

FairPeriodicSpec ==
    PeriodicInit /\ [][RunNext]_vars /\ WF_vars(\E th \in ThreadIds : RunStep(th))

\* no goroutine is inside a function of Task t
Quiet(t) == \A th \in ThreadIds : \A k \in 1 .. Len(threads[th]) : threads[th][k].t # t

\* Run() was called on t and every call and the run body have returned
Ended(t) == calls.per[t]["Run"] > 0 /\ Quiet(t)

\* the last retry loop of t has returned an error
FailedFinally(t) == obs.iterEnd[t] # NoIteration /\ ~obs.iterEnd[t].ok

\* the activations of the run body of t
BodyFrames(t) ==
    UNION {{threads[th][k] : k \in {j \in 1 .. Len(threads[th]) :
                                       threads[th][j].fn = "body" /\ threads[th][j].t = t}} :
           th \in ThreadIds}

\* the positions of the run bodies of t
BodyPcs(t) == {f.pc : f \in BodyFrames(t)}

\* C12: Stop() on a Task whose state is Completed, Failed or Cancelled changes
\* nothing: Stop() never goes on to setState(Cancelled) and cancelFunc() after
\* it read one of these states
C12_StopOnTerminalNoOp == \A t \in Tasks : obs.stopActed[t] \notin Terminal

\* C14: when the token fires while the run body waits in the startup delay, in
\* the interval wait or in a retry delay (obs.cut names that wait), the body
\* invokes the job no further and the run ends with the Task in Cancelled
C14_CutWaitEndsCancelled ==
    \A t \in Tasks :
        obs.cut[t] # "none" =>
            /\ obs.cut[t] = "retry" => obs.iterInv[t] = obs.iterEnd[t].inv
            /\ BodyPcs(t) \cap {"jobret", "retrywait"} = {}
            /\ Ended(t) => task[t].state = TaskStateCancelled

\* C15: when Stop() cancels a Task whose job is executing and the job returns
\* the error of its cancelled context, the error handler is not invoked and
\* the Task ends in Cancelled and never enters Failed, with or without
\* cancel-on-failure
C15_CancelInJobNotFailure ==
    \A t \in Tasks :
        (Opt(t).job = "ctx" /\ obs.iterEnd[t] # NoIteration) =>
            /\ obs.errCalls[t] = 0
            /\ ~obs.everFailed[t]
            /\ Ended(t) => task[t].state = TaskStateCancelled

\* the errors of the job are retryable and the strategy, if one is set, has a
\* positive delay
Retryable(t) ==
    Opt(t).retryStrategy.nil
        \/ (Opt(t).retryStrategy.retryable /\ Opt(t).retryStrategy.delay > 0)

\* C16: one iteration invokes the job at most maxRetries + 1 times; exactly
\* maxRetries + 1 times when every attempt fails with a retryable error, the
\* strategy's delay is positive and no retry delay is cut by the token;
\* exactly once when the first attempt succeeds
C16_RetryLoopBound ==
    \A t \in Tasks :
        /\ obs.iterInv[t] <= GetMaxRetries(t) + 1
        /\ (FailedFinally(t) /\ ~obs.iterEnd[t].cut /\ Retryable(t))
               => obs.iterEnd[t].inv = GetMaxRetries(t) + 1
        /\ (obs.iterEnd[t].ok /\ obs.iterEnd[t].attempts = 1) => obs.iterEnd[t].inv = 1

\* an iteration of a Task with a retry strategy failed on both of its attempts
C16_Witness ==
    \E t \in Tasks :
        /\ FailedFinally(t) /\ ~obs.iterEnd[t].cut /\ ~Opt(t).retryStrategy.nil
        /\ obs.iterEnd[t].inv = 2 /\ GetMaxRetries(t) = 1

\* C17: with cancel-on-failure, an iteration whose attempts all fail stores the
\* error as last error, calls the error handler once, moves the state to
\* Failed, fires the token, and runs no post-hook, no run-count increment and
\* no further iteration
C17_CancelOnFailureEndsRun ==
    \A t \in Tasks :
        (Opt(t).cancelOnErr /\ FailedFinally(t)) =>
            /\ task[t].lastError = obs.errArg[t] /\ obs.errArg[t] # NoErr
            /\ obs.errCalls[t] = 1
            /\ task[t].runCount = obs.iters[t] - 1
            /\ BodyPcs(t) \subseteq {"result", "cancel"}
            /\ BodyPcs(t) # {"result"} => obs.everFailed[t]
            /\ Ended(t) => task[t].ctxDone

\* the second iteration of a periodic Task with cancel-on-failure failed and
\* the run has ended
C17_Witness ==
    \E t \in Tasks :
        /\ Opt(t).cancelOnErr /\ FailedFinally(t) /\ Ended(t)
        /\ obs.iters[t] = 2 /\ ~obs.stopCalled[t]

\* C18: a Task without interval and without cancel-on-failure whose job fails
\* on every attempt, run once and not stopped: the error handler is called
\* exactly once, with the error of the last attempt, which is the last error,
\* and the Task ends in Completed with run count 1
C18_FailingOneShotCompletes ==
    \A t \in Tasks :
        (Opt(t).interval <= 0 /\ ~Opt(t).cancelOnErr /\ FailedFinally(t)
         /\ ~obs.stopCalled[t] /\ Ended(t)) =>
            /\ obs.errCalls[t] = 1
            /\ obs.errArg[t] = ErrOf(obs.iterEnd[t].attempts - 1)
            /\ task[t].lastError = obs.errArg[t]
            /\ task[t].state = TaskStateCompleted
            /\ task[t].runCount = 1

\* the invocations a run of t needs to reach maxRuns are within those followed
Followed(t) ==
    Opt(t).maxRuns * (IF Opt(t).job = "ok" THEN 1 ELSE GetMaxRetries(t) + 1) <= MaxInv

\* the run of t reached maxRuns: Completed, run count and iterations maxRuns,
\* token fired
RanToMax(t) ==
    /\ task[t].state = TaskStateCompleted /\ task[t].ctxDone
    /\ task[t].runCount = Opt(t).maxRuns /\ obs.iters[t] = Opt(t).maxRuns

\* Run() was called on a Task with interval > 0 and maxRuns > 0
PeriodicStarted(t) ==
    /\ calls.per[t]["Run"] > 0
    /\ Opt(t).interval > 0 /\ Opt(t).maxRuns > 0 /\ Followed(t)

C18_Witness ==
    \E t \in Tasks :
        /\ Opt(t).interval <= 0 /\ ~Opt(t).cancelOnErr /\ FailedFinally(t)
        /\ ~obs.stopCalled[t] /\ Ended(t) /\ obs.iterEnd[t].attempts = 2

----------------------------------------------------------------------------
(* Panics: a Task whose job or one of whose hooks panics, started once and   *)
(* possibly stopped once                                                     *)

\* WithContextPrep, WithPreHook, WithPostHook with a function that can panic, and
\* the job of TestTaskRecover
PanicTasks ==
    {[DefaultTask("A") EXCEPT !.job = j, !.panics = p, !.startupDelay = d,
                              !.interval = r[1], !.maxRuns = r[2],
                              !.retryTimes = k[1], !.retryStrategy = k[2]] :
        j \in {"ok", "any", "panic"}, p \in {"none", "contextPrep", "preHook", "postHook"},
        d \in {0, 1}, r \in Repeats,
        k \in {<<0, NoStrategy>>, <<1, NewFixedDelayRetryStrategy(1, 1, TRUE)>>}}

PanicInit ==
    \E o \in {x \in PanicTasks : x.job = "panic" \/ x.panics # "none"} :
        InitWith(Scenario(<<o>>, 1, << >>))

PanicSpec == PanicInit /\ [][RunNext]_vars

\* the run body of t has ended
BodyEnded(t) == obs.recCalls[t] > 0 /\ BodyFrames(t) = {}

\* C21: a panic of the job, the pre-hook, the post-hook or the context-prep
\* hook is recovered in the run body: the recovery hook is called once with
\* the panic value, the state becomes Failed, the body does nothing further
\* but to store a "panic: <value>" error as last error, and then it ends
C21_PanicBecomesFailed ==
    \A t \in Tasks :
        obs.recCalls[t] > 0 =>
            /\ obs.recCalls[t] = 1
            /\ obs.recArg[t] \in {"job", "contextPrep", "preHook", "postHook"}
            /\ obs.recArg[t] # "job" => Opt(t).panics = obs.recArg[t]
            /\ obs.everFailed[t]
            /\ BodyPcs(t) \subseteq {"recover"}
            /\ BodyEnded(t) => task[t].lastError = PanicError(obs.recArg[t])
            /\ (BodyEnded(t) /\ ~obs.stopCalled[t]) => task[t].state = TaskStateFailed

\* the post-hook of a periodic Task panicked in its second iteration, and the
\* run has ended
C21_Witness ==
    \E t \in Tasks :
        /\ obs.recArg[t] = "postHook" /\ obs.iters[t] = 2 /\ Ended(t)
        /\ task[t].state = TaskStateFailed

----------------------------------------------------------------------------
(* Timeouts: a Task with or without WithTimeout, started once and possibly   *)
(* stopped once                                                              *)

\* NewTask(WithTimeout(T)) as in TestTaskTimeout, with the retry options
TimeoutTasks ==
    {[DefaultTask("A") EXCEPT !.job = j, !.timeout = T, !.cancelOnErr = c,
                              !.interval = r[1], !.maxRuns = r[2],
                              !.retryTimes = k[1], !.retryStrategy = k[2]] :
        j \in {"ok", "fail", "any", "ctx"}, T \in {0, 1}, c \in BOOLEAN,
        r \in {<<0, 0>>, <<1, 2>>},
        k \in {<<0, NoStrategy>>, <<1, NoStrategy>>,
               <<1, NewFixedDelayRetryStrategy(1, 1, TRUE)>>}}

TimeoutInit == \E o \in TimeoutTasks : InitWith(Scenario(<<o>>, 1, << >>))

TimeoutStep(th) ==
    \/ SetStateSwap(th)
    \/ OnStateChange(th)
    \/ RunDeps(th)
    \/ RunSpawn(th)
    \/ CancelFunc(th)
    \/ ExecuteTaskCore(th)
    \/ DeadlineExpires(th)
    \/ JobReturn(th)
    \/ RetryWait(th)
    \/ HandleJobResult(th)
    \/ WaitForNextRun(th)

TimeoutNext ==
    \/ \E h \in HostThreads, t \in Tasks : calls.per[t]["Run"] = 0 /\ ApiRun(h, t)
    \/ \E h \in HostThreads, t \in Tasks : calls.per[t]["Stop"] = 0 /\ ApiStop(h, t)
    \/ \E th \in ThreadIds : TimeoutStep(th)

TimeoutSpec == TimeoutInit /\ [][TimeoutNext]_vars

\* C22: an attempt whose context ended by the deadline before the job
\* returned yields the "timed out after T" error that wraps the deadline
\* cause, whatever the job returned; the metric collector gets it; a retry
\* loop whose attempts all fail, by timeout or otherwise, makes maxRetries + 1
\* invocations; as final error it is the last error and the argument of the
\* error handler.  With timeout = 0 no attempt ends by a deadline, and the job
\* that waits for its context returns only when the token of the Task fired
C22_TimeoutIsAnError ==
    \A t \in Tasks :
        /\ obs.attempt[t].expired =>
              /\ Opt(t).timeout > 0
              /\ obs.attempt[t].err = TimedOut(Opt(t).timeout)
              /\ Unwrap(obs.attempt[t].err) = DeadlineExceeded
        /\ obs.metric[t] = obs.attempt[t].err
        /\ (FailedFinally(t) /\ ~obs.iterEnd[t].cut /\ Retryable(t)) =>
              obs.iterEnd[t].inv = GetMaxRetries(t) + 1
        /\ (obs.attempt[t].expired /\ BodyPcs(t) = {"result"}) =>
              /\ obs.errArg[t] = TimedOut(Opt(t).timeout)
              /\ task[t].lastError = TimedOut(Opt(t).timeout)
        /\ (Opt(t).timeout = 0 /\ Opt(t).job = "ctx" /\ obs.attempt[t] # NoAttempt) =>
              obs.attempt[t].err = Canceled /\ task[t].ctxDone

\* a job that returns nil ran twice past its deadline: the retry loop ended
\* with the timed-out error, which went to the error handler
C22_Witness ==
    \E t \in Tasks :
        /\ Opt(t).job = "ok" /\ Opt(t).timeout = 1 /\ ~obs.stopCalled[t]
        /\ obs.attempt[t].expired /\ obs.iterEnd[t].inv = 2 /\ ~obs.iterEnd[t].ok
        /\ obs.errArg[t] = TimedOut(1) /\ obs.metric[t] = TimedOut(1)

----------------------------------------------------------------------------
(* Dependencies: Tasks linked with DependsOn, run and stopped by the host *)

\* a predecessor: one run, and its job stores a value under key x
Pred(name) == [DefaultTask(name) EXCEPT !.sets = TRUE]
\* NewTask(WithName(name), WithJob(job)).DependsOn(deps...)
Succ(name, deps) == [DefaultTask(name) EXCEPT !.deps = deps]

DepScenarios ==
    {Scenario(<<Pred("A"), Succ("B", <<1>>)>>, 1, << >>),
     Scenario(<<Pred("A"), Pred("B"), Succ("C", <<1, 2>>)>>, 1, << >>),
     Scenario(<<Pred("A"), Pred("A"), Succ("C", <<1, 2>>)>>, 1, << >>)}

DepInit == \E c \in DepScenarios : InitWith(c)

\* a thread's next step in the code of Task, for Tasks with dependencies
DepStep(th) ==
    \/ SetStateSwap(th)
    \/ OnStateChange(th)
    \/ Listener(th)
    \/ RunCheck(th)
    \/ RunDeps(th)
    \/ WithOnDependenciesMet(th)
    \/ RunSpawn(th)
    \/ CancelFunc(th)
    \/ ExecuteTaskCore(th)
    \/ JobReturn(th)
    \/ HandleJobResult(th)

DepNext ==
    \/ \E h \in HostThreads, t \in Tasks :
          calls.total < MaxCalls /\ calls.per[t]["Run"] < MaxCallsPerTask /\ ApiRun(h, t)
    \/ \E h \in HostThreads, t \in Tasks :
          calls.total < MaxCalls /\ calls.per[t]["Stop"] < MaxCallsPerTask /\ ApiStop(h, t)
    \/ \E th \in ThreadIds : DepStep(th)

DepSpec == DepInit /\ [][DepNext]_vars

\* the Go scheduler runs every goroutine that can take a step; the host
\* program may stop calling at any time
FairDepSpec == DepSpec /\ WF_vars(\E th \in ThreadIds : DepStep(th))

\* C2: for every edge a -> b installed with DependsOn (the names of the Tasks
\* need not differ), b is not Running and its job has not been invoked before a
\* has entered Completed
C2_RunsAfterPredecessors ==
    \A b \in Tasks : \A a \in Range(Opt(b).deps) :
        (task[b].state = TaskStateRunning \/ obs.jobInv[b] > 0) => obs.everCompleted[a]

\* C9: B depends on A and was constructed with a name, a job and the
\* dependency only; A's job stores a value under key x; when B's job reads key
\* x it obtains the value A stored
C9_DependentReadsValue ==
    \A b \in Tasks : \A a \in Tasks :
        (Opt(b).used /\ Range(Opt(b).deps) = {a} /\ Opt(a).sets /\ ~Opt(b).withCtx
         /\ obs.seen[b] # "unread")
            => obs.seen[b] = ValueOf(a)

\* C10: when Run() found a dependency of b unmet and b is never stopped, then
\* once every predecessor has entered Completed, b runs and its job is invoked
C10_DependentEventuallyRuns ==
    \A b \in Tasks :
        (obs.waiting[b] /\ \A a \in Range(Opt(b).deps) : obs.everCompleted[a])
            ~> (obs.jobInv[b] > 0 \/ obs.stopCalled[b])

\* Run() found a dependency of b unmet, b was never stopped, both of its
\* predecessors completed and the job of b has been invoked
C10_Witness ==
    \E b \in Tasks :
        /\ obs.waiting[b] /\ ~obs.stopCalled[b] /\ obs.jobInv[b] > 0
        /\ Cardinality(Range(Opt(b).deps)) = 2
        /\ \A a \in Range(Opt(b).deps) : obs.everCompleted[a]

----------------------------------------------------------------------------
(* Dependencies run again: a host program that calls Run() on Idle Tasks and  *)
(* Reset() on finished ones, one call after the other                        *)

RerunScenarios ==
    {Scenario(<<Pred("A"), Succ("B", <<1>>)>>, 1, << >>),
     Scenario(<<Pred("A"), Pred("B"), Succ("C", <<1, 2>>)>>, 1, << >>)}

RerunInit == \E c \in RerunScenarios : InitWith(c)

RerunStep(th) ==
    \/ OnStateChange(th)
    \/ Listener(th)
    \/ RunCheck(th)
    \/ RunDeps(th)
    \/ WithOnDependenciesMet(th)
    \/ RunSpawn(th)
    \/ ResetState(th)
    \/ ExecuteTaskCore(th)
    \/ JobReturn(th)
    \/ HandleJobResult(th)

\* the host program is in no call
HostIdle == \A h \in HostThreads : ~Busy(h)

RerunNext ==
    \/ \E h \in HostThreads, t \in Tasks :
          /\ calls.total < MaxRerunCalls /\ HostIdle
          /\ task[t].state = TaskStateIdle
          /\ ApiRun(h, t)
    \/ \E h \in HostThreads, t \in Tasks :
          /\ calls.total < MaxRerunCalls /\ HostIdle
          /\ task[t].state \in Terminal
          /\ ApiReset(h, t)
    \/ \E th \in ThreadIds : RerunStep(th)

RerunSpec == RerunInit /\ [][RerunNext]_vars

\* a Task that depends on A and registered a callback for its dependencies
CallbackScenarios ==
    {Scenario(<<Pred("A"), [Succ("B", <<1>>) EXCEPT !.callback = TRUE]>>, 1, << >>)}

CallbackInit == \E c \in CallbackScenarios : InitWith(c)

CallbackSpec == CallbackInit /\ [][DepNext]_vars

\* C40: the callback registered with WithOnDependenciesMet or
\* WithDependenciesCallback is called when all dependencies of the Task become
\* met, also when Run() was called on the Task while they were unmet
C40_CallbackIsCalled ==
    \A d \in Tasks : (Opt(d).callback /\ obs.metTurns[d] > 0) => obs.called[d]

\* C11: the listeners of a dependent call its on-all-satisfied callback once
\* for every change of its map from not-all-true to all-true, and never when a
\* predecessor enters Completed while the map is all-true already
C11_CallbackOncePerTurn == \A d \in Tasks : obs.metCalls[d] = obs.metTurns[d]

----------------------------------------------------------------------------
(* PriorityQueue: container/heap over items, indexed from 0 as in the code *)

\* a Less that puts the lower priority first
LessLowFirst(s, i, j) == s[i + 1].priority < s[j + 1].priority

\* PriorityQueue.Less: the higher priority is the lesser item
Less(s, i, j) == s[i + 1].priority > s[j + 1].priority

\* PriorityQueue.Swap
Swap(s, i, j) == [s EXCEPT ![i + 1] = s[j + 1], ![j + 1] = s[i + 1]]

\* heap.up: the item at j rises while it is less than its parent
RECURSIVE Up(_, _)
Up(s, j) ==
    IF j = 0 THEN s
    ELSE LET i == (j - 1) \div 2 IN
         IF ~Less(s, j, i) THEN s ELSE Up(Swap(s, i, j), i)

\* heap.down: the item at i sinks below its lesser child, within the first n
RECURSIVE Down(_, _, _)
Down(s, i, n) ==
    LET j1 == 2 * i + 1 IN
    IF j1 >= n THEN s
    ELSE LET j == IF j1 + 1 < n /\ Less(s, j1 + 1, j1) THEN j1 + 1 ELSE j1 IN
         IF ~Less(s, j, i) THEN s ELSE Down(Swap(s, i, j), j, n)

\* Enqueue: heap.Push of an item with the Task's priority
Enqueue(q, t) == Up(Append(q, [task |-> t, priority |-> Opt(t).priority]), Len(q))

\* Dequeue on a queue that is not empty: heap.Pop swaps the root to the end,
\* restores the heap on the rest and removes the last item
Dequeue(q) ==
    LET n == Len(q) - 1
        w == Down(Swap(q, 0, n), 0, n) IN
    [task |-> w[n + 1].task, items |-> SubSeq(w, 1, n)]

----------------------------------------------------------------------------
(* WorkerPool *)

\* the task-info map after tasks[name] = status
PutInfo(m, name, status) ==
    [n \in DOMAIN m \cup {name} |-> IF n = name THEN status ELSE m[n]]

\* if info, exists := wp.tasks[name]; exists { info.Status = status }
SetInfo(m, name, status) == IF name \in DOMAIN m THEN PutInfo(m, name, status) ELSE m

Workers == {w \in WorkerThreads : w - SchedulerThread <= wp.size}

\* what the observer notes at a call of fn on the pool
PoolCall(o, fn) ==
    [o EXCEPT !.pool = [last |-> fn,
                        twice |-> IF @.last = fn /\ fn # "Submit"
                                  THEN @.twice \cup {fn} ELSE @.twice]]

\* a Start that starts the goroutines whether or not the pool is running
StartAgain ==
    /\ ~wp.mutex
    /\ calls' = [calls EXCEPT !.pool["Start"] = @ + 1]
    /\ wp' = [wp EXCEPT !.running = TRUE]
    /\ threads' = [th \in ThreadIds |->
                      IF th \in Workers THEN <<NoLocals("worker", 0, "recv")>>
                      ELSE IF th = SchedulerThread
                      THEN <<NoLocals("scheduler", 0, "loop")>>
                      ELSE threads[th]]
    /\ obs' = PoolCall(obs, "Start")
    /\ UNCHANGED <<cfg, tc, tg, task>>

\* Start: nothing when running; else running = true, the scheduler goroutine
\* and size worker goroutines start
Start ==
    /\ ~wp.mutex
    /\ calls' = [calls EXCEPT !.pool["Start"] = @ + 1]
    /\ IF wp.running
       THEN UNCHANGED <<wp, threads>>
       ELSE /\ wp' = [wp EXCEPT !.running = TRUE]
            /\ threads' = [th \in ThreadIds |->
                              IF th \in Workers THEN <<NoLocals("worker", 0, "recv")>>
                              ELSE IF th = SchedulerThread
                              THEN <<NoLocals("scheduler", 0, "loop")>>
                              ELSE threads[th]]
    /\ obs' = PoolCall(obs, "Start")
    /\ UNCHANGED <<cfg, tc, tg, task>>

\* a Submit that enqueues whether or not the pool is running
SubmitAlways(t) ==
    /\ ~wp.mutex
    /\ t \in Used
    /\ calls' = [calls EXCEPT !.per[t]["Submit"] = @ + 1]
    /\ wp' = [wp EXCEPT !.tasks = PutInfo(@, Opt(t).name, TaskStatusPending),
                        !.taskQueue = Enqueue(@, t)]
    /\ obs' = [PoolCall(obs, "Submit") EXCEPT
                  !.refused = IF wp.running THEN @ ELSE @ \cup {t},
                  !.accepted = IF wp.running THEN Append(@, t) ELSE @]
    /\ UNCHANGED <<cfg, tc, tg, task, threads>>

\* Submit: a warning when not running; else the info record is stored as
\* Pending under the Task's name and the Task is enqueued
Submit(t) ==
    /\ ~wp.mutex
    /\ t \in Used
    /\ calls' = [calls EXCEPT !.per[t]["Submit"] = @ + 1]
    /\ IF ~wp.running
       THEN /\ obs' = [PoolCall(obs, "Submit") EXCEPT !.refused = @ \cup {t}]
            /\ UNCHANGED wp
       ELSE /\ wp' = [wp EXCEPT !.tasks = PutInfo(@, Opt(t).name, TaskStatusPending),
                                !.taskQueue = Enqueue(@, t)]
            /\ obs' = [PoolCall(obs, "Submit") EXCEPT !.accepted = Append(@, t)]
    /\ UNCHANGED <<cfg, tc, tg, task, threads>>

\* Stop up to wg.Wait(): nothing when not running; else running = false,
\* cancelFunc(), close(taskChan); wp.mutex stays held
WorkerPoolStop ==
    /\ ~wp.mutex
    /\ calls' = [calls EXCEPT !.pool["Stop"] = @ + 1]
    /\ wp' = IF ~wp.running THEN wp
             ELSE [wp EXCEPT !.running = FALSE, !.ctxDone = TRUE, !.mutex = TRUE,
                             !.chanClosed = TRUE, !.panicked = @ \/ wp.chanClosed]
    /\ obs' = [PoolCall(obs, "Stop") EXCEPT !.closes = IF wp.running THEN @ + 1 ELSE @]
    /\ UNCHANGED <<cfg, tc, tg, task, threads>>

\* Stop: wg.Wait() returns when every worker has returned; the lock is released
WorkerPoolStopWait ==
    /\ wp.mutex
    /\ \A w \in WorkerThreads : ~Busy(w)
    /\ wp' = [wp EXCEPT !.mutex = FALSE]
    /\ UNCHANGED <<cfg, tc, tg, task, threads, calls, obs>>

\* scheduler: return when the pool's token has fired; else Dequeue, and sleep
\* and look again when the queue is empty
SchedulerLoop(th) ==
    /\ At(th, "scheduler", "loop")
    /\ IF wp.ctxDone
       THEN threads' = [threads EXCEPT ![th] = << >>] /\ UNCHANGED wp
       ELSE /\ wp.taskQueue # << >>
            /\ LET d == Dequeue(wp.taskQueue) IN
                /\ wp' = [wp EXCEPT !.taskQueue = d.items]
                /\ threads' = [threads EXCEPT ![th] = <<NoLocals("scheduler", d.task, "send")>>]
    /\ UNCHANGED <<cfg, tc, tg, task, calls, obs>>

\* the cases of the scheduler's select that can be taken
SendCases ==
    (IF wp.ctxDone THEN {"done"} ELSE {})
    \cup (IF wp.chanClosed \/ Len(wp.taskChan) < 2 * wp.size THEN {"send"} ELSE {})

\* scheduler: select on wp.ctx.Done() and wp.taskChan <- task; a send on the
\* closed channel panics
SchedulerSend(th) ==
    /\ At(th, "scheduler", "send")
    /\ \E c \in SendCases :
        IF c = "done"
        THEN threads' = [threads EXCEPT ![th] = << >>] /\ UNCHANGED <<wp, obs>>
        ELSE IF wp.chanClosed
        THEN /\ wp' = [wp EXCEPT !.panicked = TRUE]
             /\ obs' = [obs EXCEPT !.sentClosed = TRUE]
             /\ UNCHANGED threads
        ELSE /\ wp' = [wp EXCEPT !.taskChan = Append(@, Top(th).t)]
             /\ threads' = [threads EXCEPT ![th] = <<NoLocals("scheduler", 0, "loop")>>]
             /\ UNCHANGED obs
    /\ UNCHANGED <<cfg, tc, tg, task, calls>>

\* the cases of the worker's first select that can be taken
ReceiveCases ==
    (IF wp.ctxDone THEN {"done"} ELSE {})
    \cup (IF wp.taskChan # << >> THEN {"task"} ELSE {})
    \cup (IF wp.taskChan = << >> /\ wp.chanClosed THEN {"closed"} ELSE {})

\* worker: select on wp.ctx.Done() and <-wp.taskChan; with a Task, its info
\* becomes Running, done is made, and a goroutine is started that wraps the
\* Task's hooks and runs it
WorkerReceive(th) ==
    /\ At(th, "worker", "recv")
    /\ \E c \in ReceiveCases :
        IF c = "task"
        THEN LET t == Head(wp.taskChan)
                 done == wp.done + 1 IN
             /\ wp' = [wp EXCEPT !.taskChan = Tail(@), !.done = done,
                                 !.tasks = SetInfo(@, Opt(t).name, TaskStatusRunning)]
             /\ threads' = Go([threads EXCEPT ![th] = <<Frame("worker", t, "wait", "", "", done)>>],
                              Frame("monitor", t, "wrap", "", "", done))
        ELSE threads' = [threads EXCEPT ![th] = << >>] /\ UNCHANGED wp
    /\ UNCHANGED <<cfg, tc, tg, task, calls, obs>>

\* the goroutine the worker started: task.postHook and task.errorHandler are
\* wrapped, then task.Run()
Monitor(th) ==
    /\ At(th, "monitor", "wrap")
    /\ LET f == Top(th) IN
        /\ task' = [task EXCEPT ![f.t].postHook = Append(@, f.i)]
        /\ threads' = [threads EXCEPT ![th] = <<NoLocals("Run", f.t, "check")>>]
    /\ UNCHANGED <<cfg, tc, tg, wp, calls, obs>>

\* the cases of the worker's second select that can be taken
WaitCases(done) ==
    (IF wp.ctxDone THEN {"stop"} ELSE {})
    \cup (IF done \in wp.doneClosed THEN {"done"} ELSE {})

\* worker: select on <-done and wp.ctx.Done(); after done the info becomes
\* Failed or Completed and the worker receives again; after the pool's token
\* task.Stop() is called
WorkerWait(th) ==
    /\ At(th, "worker", "wait")
    /\ LET f == Top(th) IN
        \E c \in WaitCases(f.i) :
            IF c = "done"
            THEN /\ wp' = [wp EXCEPT !.tasks =
                              SetInfo(@, Opt(f.t).name,
                                      IF f.i \in wp.taskErr THEN TaskStatusFailed
                                      ELSE TaskStatusCompleted)]
                 /\ threads' = [threads EXCEPT ![th] = <<NoLocals("worker", 0, "recv")>>]
                 /\ UNCHANGED obs
            ELSE /\ threads' = [threads EXCEPT ![th] =
                                   Call(@, "cancelled", NoLocals("Stop", f.t, "check"))]
                 /\ obs' = [obs EXCEPT !.poolCut =
                               IF f.i \in wp.doneClosed THEN @ ELSE @ \cup {f.t}]
                 /\ UNCHANGED wp
    /\ UNCHANGED <<cfg, tc, tg, task, calls>>

\* worker after task.Stop(): the info becomes Cancelled and the worker returns
WorkerCancelled(th) ==
    /\ At(th, "worker", "cancelled")
    /\ wp' = [wp EXCEPT !.tasks = SetInfo(@, Opt(Top(th).t).name, TaskStatusCancelled)]
    /\ threads' = [threads EXCEPT ![th] = << >>]
    /\ UNCHANGED <<cfg, tc, tg, task, calls, obs>>

----------------------------------------------------------------------------
(* The pool with Tasks submitted by the host program *)

\* a thread's next step in the code of Task or of the pool
PoolStep(th) ==
    \/ OnStateChange(th)
    \/ Listener(th)
    \/ RunCheck(th)
    \/ RunDeps(th)
    \/ WithOnDependenciesMet(th)
    \/ RunSpawn(th)
    \/ CancelFunc(th)
    \/ ExecuteTaskCore(th)
    \/ JobReturn(th)
    \/ HandleJobResult(th)
    \/ PostHook(th)
    \/ HandlePanic(th)
    \/ WaitForNextRun(th)
    \/ SchedulerLoop(th)
    \/ SchedulerSend(th)
    \/ WorkerReceive(th)
    \/ Monitor(th)
    \/ WorkerWait(th)

Prio(name, p) == [DefaultTask(name) EXCEPT !.priority = p]

PoolScenarios ==
    {Scenario(<<Prio("low1", PriorityLow), Prio("low2", PriorityLow),
                Prio("high", PriorityHigh)>>, 1, <<1, 2, 3>>),
     Scenario(<<[DefaultTask("tick") EXCEPT !.interval = 1], [DefaultTask("once") EXCEPT !.maxRuns = 1]>>, 1, << >>)}
    \cup {Scenario(<<DefaultTask("t1"), Succ("t2", <<1>>), Succ("t3", <<2>>)>>, n, << >>) :
              n \in 1 .. 2}

PoolInit == \E c \in PoolScenarios : InitWith(c)

\* the Submit calls made so far
Submitted == calls.per[1]["Submit"] + calls.per[2]["Submit"] + calls.per[3]["Submit"]

\* the host program submits in the order of the scenario, if it has one
NextToSubmit(t) ==
    cfg.order # << >> => Submitted < Len(cfg.order) /\ t = cfg.order[Submitted + 1]

\* the host program starts the pool and submits; it does not stop the pool
PoolNext ==
    \/ calls.pool["Start"] < MaxCallsPerTask /\ Start
    \/ \E t \in Tasks :
          calls.per[t]["Submit"] < MaxCallsPerTask /\ NextToSubmit(t) /\ Submit(t)
    \/ \E th \in ThreadIds : PoolStep(th)

PoolSpec == PoolInit /\ [][PoolNext]_vars

\* C6: in a pool of size N at most N of the submitted Tasks have their job
\* executing at any time
C6_PoolLimitsJobs == Cardinality({t \in Tasks : InJob(t) # {}}) <= wp.size

\* C7: after Submit(low), Submit(low), Submit(high) on a started pool of size 1
\* the first job invoked is that of the Task with the highest priority
C7_HighPriorityFirst ==
    (cfg.order # << >> /\ obs.accepted = cfg.order /\ obs.firstJob # 0)
        => \A t \in Range(cfg.order) : Opt(obs.firstJob).priority >= Opt(t).priority

\* C8: with t1 <- t2 <- t3 submitted in any order to a started pool that is not
\* stopped every job is eventually invoked: when all are submitted and no
\* goroutine can take another step, every job has been invoked
C8_ChainAllInvoked ==
    (obs.accepted # << >> /\ Range(obs.accepted) = Used
     /\ ~ENABLED (\E th \in ThreadIds : PoolStep(th)))
        => \A t \in Used : obs.jobInv[t] > 0

----------------------------------------------------------------------------
(* The pool started, submitted to and stopped by the host program *)

\* a thread's next step in the code of Task or of the pool, the worker's call
\* of task.Stop() included
LifeStep(th) ==
    \/ SetStateSwap(th)
    \/ OnStateChange(th)
    \/ RunCheck(th)
    \/ RunDeps(th)
    \/ RunSpawn(th)
    \/ StopCheck(th)
    \/ CancelFunc(th)
    \/ ExecuteTaskCore(th)
    \/ HandleStartupDelay(th)
    \/ JobReturn(th)
    \/ HandleJobResult(th)
    \/ PostHook(th)
    \/ HandlePanic(th)
    \/ WaitForNextRun(th)
    \/ SchedulerLoop(th)
    \/ SchedulerSend(th)
    \/ WorkerReceive(th)
    \/ Monitor(th)
    \/ WorkerWait(th)
    \/ WorkerCancelled(th)

\* a periodic Task or a Task of one run, in a pool of one or two workers
LifeScenarios ==
    {Scenario(<<o>>, n, << >>) :
        o \in {[DefaultTask("tick") EXCEPT !.interval = 1, !.startupDelay = d] : d \in 0 .. 1}
               \cup {[DefaultTask("once") EXCEPT !.maxRuns = 1]},
        n \in 1 .. 2}

LifeInit == \E c \in LifeScenarios : InitWith(c)

\* no goroutine of the pool is left
PoolQuiet == \A th \in Workers \cup {SchedulerThread} : ~Busy(th)

\* the host program calls Start, Submit and Stop in any order, one call at a
\* time; it starts the pool again only when the goroutines of the last start
\* have returned
LifeNext ==
    \/ calls.pool["Start"] < MaxPoolCalls /\ (wp.running \/ PoolQuiet) /\ Start
    \/ \E t \in Tasks : calls.per[t]["Submit"] < MaxCallsPerTask /\ Submit(t)
    \/ calls.pool["Stop"] < MaxPoolCalls /\ WorkerPoolStop
    \/ WorkerPoolStopWait
    \/ \E th \in ThreadIds : LifeStep(th)

LifeSpec == LifeInit /\ [][LifeNext]_vars

\* the Go scheduler runs every goroutine that can take a step
FairLifeSpec ==
    LifeSpec /\ WF_vars(\E th \in ThreadIds : LifeStep(th)) /\ WF_vars(WorkerPoolStopWait)

\* the pool holds Task t: in its queue, its channel, its task-info map or with
\* one of its goroutines
PoolHolds(t) ==
    \/ t \in {x.task : x \in Range(wp.taskQueue)} \/ t \in Range(wp.taskChan)
    \/ Opt(t).name \in DOMAIN wp.tasks
    \/ ~Quiet(t)

\* C25: a Task whose only Submit found the pool not running (never started, or
\* stopped) is not in the priority queue, the channel or the task-info map, and
\* its job is never invoked, also when the pool is started afterwards
C25_RefusedSubmitAddsNothing ==
    \A t \in obs.refused \ Range(obs.accepted) : ~PoolHolds(t) /\ obs.jobInv[t] = 0

\* a Task was refused by the pool before its first start, the pool was started
\* afterwards, stopped and started again, and is running
C25_Witness ==
    /\ obs.refused = {1} /\ obs.accepted = << >>
    /\ calls.pool["Start"] = 2 /\ calls.pool["Stop"] = 1 /\ wp.running /\ PoolQuiet = FALSE

\* the step is a call of fn on the pool
PoolCalled(fn) == calls'.pool[fn] = calls.pool[fn] + 1

\* C26: a Start() on a running pool starts no goroutine and leaves the pool
\* running; a Stop() on a pool that is not running cancels, closes and joins
\* nothing and leaves the pool not running
C26_SecondCallDoesNothing ==
    [][/\ (PoolCalled("Start") /\ wp.running) => (wp' = wp /\ threads' = threads)
       /\ (PoolCalled("Stop") /\ ~wp.running) => (wp' = wp /\ threads' = threads)]_vars

\* Start() was called directly after Start(), and Stop() directly after Stop()
C26_Witness ==
    /\ obs.pool.twice = {"Start", "Stop"}
    /\ calls.pool["Start"] = 2 /\ calls.pool["Stop"] = 2 /\ ~wp.running /\ ~wp.mutex

\* the first Stop() on the running pool is waiting for the workers
StopWaits == wp.mutex /\ calls.pool["Start"] = 1

\* the info of Task t in the pool's map
InfoStatus(t) ==
    IF Opt(t).name \in DOMAIN wp.tasks THEN wp.tasks[Opt(t).name] ELSE "none"

\* Stop() has returned and the program goes on: every goroutine of the pool has
\* returned, and every Task a worker was waiting on has its token fired and
\* the info Cancelled
StopReturned ==
    /\ ~wp.mutex /\ ~wp.running /\ ~wp.panicked
    /\ PoolQuiet
    /\ \A t \in obs.poolCut : task[t].ctxDone /\ InfoStatus(t) = TaskStatusCancelled

\* the pool was started again
Restarted == calls.pool["Start"] > 1

\* C27: Stop() on a running pool returns, and then all workers and the
\* scheduler have returned and every Task a worker was still waiting on is
\* stopped with the info Cancelled
C27_StopJoinsAll == StopWaits ~> (StopReturned \/ Restarted)

\* C35: for every sequence of Start(), Stop() and Submit() calls, Start() after
\* Stop() included, close(wp.taskChan) is called at most once
C35_ChannelClosedOnce == obs.closes <= 1

\* C36: the scheduler never sends on wp.taskChan after Stop() has closed it
C36_NoSendAfterClose == ~obs.sentClosed

----------------------------------------------------------------------------
(* The pool running one Task to its end; the pool is not stopped *)

\* a goroutine's next step in the code of Task or of the pool
FinishStep(th) ==
    \/ SetStateSwap(th)
    \/ OnStateChange(th)
    \/ RunCheck(th)
    \/ RunDeps(th)
    \/ RunSpawn(th)
    \/ CancelFunc(th)
    \/ ExecuteTaskCore(th)
    \/ JobReturn(th)
    \/ HandleJobResult(th)
    \/ PostHook(th)
    \/ HandlePanic(th)
    \/ SchedulerLoop(th)
    \/ SchedulerSend(th)
    \/ WorkerReceive(th)
    \/ Monitor(th)
    \/ WorkerWait(th)

\* one Task of one run whose job succeeds, fails or panics, with and without
\* cancel-on-failure, in a pool of one worker
FinishScenarios ==
    {Scenario(<<[DefaultTask("t1") EXCEPT !.job = j, !.cancelOnErr = c]>>, 1, << >>) :
        j \in {"ok", "fail", "panic"}, c \in BOOLEAN}

FinishInit == \E c \in FinishScenarios : InitWith(c)

\* the host program starts the pool and submits the Task, again after it has
\* finished, and calls Stop() on the Task
FinishNext ==
    \/ calls.pool["Start"] < MaxCallsPerTask /\ Start
    \/ \E t \in Tasks : calls.per[t]["Submit"] < MaxSubmits /\ Submit(t)
    \/ \E h \in HostThreads, t \in Tasks : calls.per[t]["Stop"] < MaxCallsPerTask /\ ApiStop(h, t)
    \/ \E th \in ThreadIds : FinishStep(th)

FinishSpec == FinishInit /\ [][FinishNext]_vars

\* the Go scheduler runs every goroutine that can take a step
FairFinishSpec == FinishSpec /\ WF_vars(\E th \in ThreadIds : FinishStep(th))

\* a worker has received Task t and waits for its completion channel
Dispatched(t) == \E w \in WorkerThreads : At(w, "worker", "wait") /\ Top(w).t = t

\* the run body of the dispatched Task t has ended in a terminal state: only
\* the worker is still inside a function for t
BodyOver(t) ==
    /\ Dispatched(t) /\ task[t].state \in Terminal
    /\ \A th \in ThreadIds \ WorkerThreads : \A k \in 1 .. Len(threads[th]) :
           threads[th][k].t # t

\* the worker has written a terminal status for t and receives again
WorkerFree(t) ==
    /\ InfoStatus(t) \in {TaskStatusCompleted, TaskStatusFailed, TaskStatusCancelled}
    /\ ~Dispatched(t)

\* C33: once the run body of a dispatched Task has ended in a terminal state,
\* the worker eventually writes a terminal status to the task-info entry and
\* receives the next Task, the pool not being stopped
C33_WorkerSeesTheEnd == \A t \in Tasks : BodyOver(t) ~> WorkerFree(t)

\* C34: the completion channel a worker made for a dispatched Task is closed
\* at most once: no post-hook panics by closing a closed channel, also when
\* the Task is submitted again after it finished
C34_DoneClosedOnce == \A t \in Tasks : obs.recArg[t] # "close"

----------------------------------------------------------------------------
(* TaskGroup *)

\* the functions of TaskGroup that take mutex.Lock() first
LockFns == {"OnAllCompleted", "OnAnyFailed", "checkGroupCompletion"}
\* the functions that take mutex.RLock(): RunAll, StopAll, and
\* areAllTasksCompleted and getFailedTasks, which OnAllCompleted and
\* OnAnyFailed call with the callback in their frame
RLockFns == {"RunAll", "StopAll", "OnAllCompleted", "OnAnyFailed"}

\* tg.mutex.Lock(): waits until no goroutine holds the mutex; OnAllCompleted
\* and OnAnyFailed then store their callback
GroupLock(th) ==
    /\ ~wp.panicked /\ Busy(th)
    /\ Top(th).fn \in LockFns /\ Top(th).pc = "lock"
    /\ tg.writer = 0 /\ tg.readers = {}
    /\ LET f == Top(th) IN
        /\ tg' = [tg EXCEPT !.writer = th,
                            !.onAllCompleted = IF f.fn = "OnAllCompleted" THEN f.a ELSE @,
                            !.onAnyFailed = IF f.fn = "OnAnyFailed" THEN f.a ELSE @]
        /\ threads' = [threads EXCEPT ![th] =
                          Goto(@, IF f.fn = "checkGroupCompletion" THEN "failed" ELSE "rlock")]
    /\ UNCHANGED <<cfg, tc, task, wp, calls, obs>>

\* tg.mutex.RLock(): waits while a goroutine holds mutex.Lock(), the caller
\* itself included
GroupRLock(th) ==
    /\ ~wp.panicked /\ Busy(th)
    /\ Top(th).fn \in RLockFns /\ Top(th).pc = "rlock"
    /\ tg.writer = 0
    /\ tg' = [tg EXCEPT !.readers = @ \cup {th}]
    /\ threads' = [threads EXCEPT ![th] =
                      Goto(@, CASE Top(th).fn = "OnAllCompleted" -> "all"
                                [] Top(th).fn = "OnAnyFailed" -> "failed"
                                [] OTHER -> "loop")]
    /\ UNCHANGED <<cfg, tc, task, wp, calls, obs>>

\* getFailedTasksLocked
GetFailedTasksLocked == SelectSeq(cfg.group, LAMBDA t : task[t].state = TaskStateFailed)

\* areAllTasksCompletedLocked
AreAllTasksCompletedLocked == \A t \in Range(cfg.group) : task[t].state \in Terminal

\* the callback a function of the group calls: its argument in OnAllCompleted
\* and OnAnyFailed, the stored one in checkGroupCompletion
GroupCallback(f, stored) == IF f.fn = "checkGroupCompletion" THEN stored ELSE f.a

\* checkGroupCompletion and OnAnyFailed: the failed Tasks are collected (by
\* getFailedTasks under RLock in OnAnyFailed) and the callback is called with
\* them, mutex.Lock() held; the callback of RunAndWait stores the last error of
\* the first
GroupFailed(th) ==
    /\ ~wp.panicked /\ Busy(th)
    /\ Top(th).fn \in LockFns /\ Top(th).pc = "failed"
    /\ LET f == Top(th)
           failedTasks == GetFailedTasksLocked
           called == failedTasks # << >> /\ GroupCallback(f, tg.onAnyFailed) # "nil" IN
        /\ tg' = [tg EXCEPT !.readers = @ \ {th},
                            !.groupErr = IF called THEN task[failedTasks[1]].lastError ELSE @]
        /\ obs' = [obs EXCEPT !.underLock = IF called /\ tg.writer = th
                                            THEN @ \cup {"onAnyFailed"} ELSE @]
        /\ threads' = [threads EXCEPT ![th] =
                          Goto(@, IF f.fn = "checkGroupCompletion" THEN "all" ELSE "unlock")]
    /\ UNCHANGED <<cfg, tc, task, wp, calls>>

\* the frames of s up to the innermost run body, whose deferred handlePanic
\* recovers a panic of a callback; << >> when s has no run body
RECURSIVE ToBody(_)
ToBody(s) ==
    IF s = << >> \/ s[Len(s)].fn = "body" THEN s ELSE ToBody(ButLast(s))

\* checkGroupCompletion and OnAllCompleted: when every Task is terminal (seen
\* by areAllTasksCompleted under RLock in OnAllCompleted) the callback is
\* called, mutex.Lock() held; the callback of RunAndWait closes done, and
\* closing it again panics: the deferred Unlock runs, and the panic is
\* recovered by the run body the callback was called from, if any
GroupAll(th) ==
    /\ ~wp.panicked /\ Busy(th)
    /\ Top(th).fn \in LockFns /\ Top(th).pc = "all"
    /\ LET f == Top(th)
           called == AreAllTasksCompletedLocked /\ GroupCallback(f, tg.onAllCompleted) # "nil"
           o == [obs EXCEPT !.underLock = IF called /\ tg.writer = th
                                          THEN @ \cup {"onAllCompleted"} ELSE @]
           b == ToBody(threads[th]) IN
        IF called /\ tg.done
        THEN /\ tg' = [tg EXCEPT !.readers = @ \ {th},
                                 !.writer = IF @ = th THEN 0 ELSE @]
             /\ IF b = << >>
                THEN /\ wp' = [wp EXCEPT !.panicked = TRUE]
                     /\ obs' = o
                     /\ UNCHANGED <<task, threads>>
                ELSE /\ task' = [task EXCEPT ![b[Len(b)].t].state = TaskStateFailed]
                     /\ threads' = [threads EXCEPT ![th] =
                           Append([b EXCEPT ![Len(b)].pc = "recover", ![Len(b)].a = "close"],
                                  Frame("setState", b[Len(b)].t, "callback", TaskStateFailed,
                                        task[b[Len(b)].t].state, 0))]
                     /\ obs' = Recovered(o, b[Len(b)].t, "close")
                     /\ UNCHANGED wp
        ELSE /\ tg' = [tg EXCEPT !.readers = @ \ {th}, !.done = @ \/ called]
             /\ obs' = o
             /\ threads' = [threads EXCEPT ![th] = Goto(@, "unlock")]
             /\ UNCHANGED <<task, wp>>
    /\ UNCHANGED <<cfg, tc, calls>>

\* RunAll and StopAll: for _, task := range tg.tasks { task.Run() / task.Stop() }
GroupLoop(th) ==
    /\ ~wp.panicked /\ Busy(th)
    /\ Top(th).fn \in {"RunAll", "StopAll"} /\ Top(th).pc = "loop"
    /\ LET f == Top(th) IN
        threads' = [threads EXCEPT ![th] =
            IF f.i >= Len(cfg.group) THEN Goto(@, "unlock")
            ELSE Append([@ EXCEPT ![Len(@)].i = f.i + 1],
                        NoLocals(IF f.fn = "RunAll" THEN "Run" ELSE "Stop",
                                 cfg.group[f.i + 1], "check"))]
    /\ UNCHANGED <<cfg, tc, tg, task, wp, calls, obs>>

\* the deferred mutex.Unlock() or mutex.RUnlock(), and the return
GroupReturn(th) ==
    /\ ~wp.panicked /\ Busy(th)
    /\ Top(th).fn \in LockFns \cup RLockFns /\ Top(th).pc = "unlock"
    /\ tg' = [tg EXCEPT !.readers = @ \ {th}, !.writer = IF @ = th THEN 0 ELSE @]
    /\ threads' = [threads EXCEPT ![th] = Return(@)]
    /\ UNCHANGED <<cfg, tc, task, wp, calls, obs>>

\* the cases of the select of RunAndWait that can be taken: the timer fires at
\* some time
SelectCases == {"timeout"} \cup (IF tg.done THEN {"done"} ELSE {})

\* RunAndWait: done and groupErr are made, tg.OnAllCompleted(close(done)),
\* .OnAnyFailed(groupErr = ...), tg.RunAll(), then the select on done and
\* time.After(timeout): groupErr is returned, or ErrTimeout after tg.StopAll()
RunAndWaitStep(th) ==
    /\ ~wp.panicked /\ Busy(th) /\ Top(th).fn = "RunAndWait"
    /\ LET pc == Top(th).pc IN
        \E c \in IF pc = "select" THEN SelectCases ELSE {"go"} :
            /\ tg' = IF pc = "start" THEN [tg EXCEPT !.done = FALSE, !.groupErr = NoErr]
                     ELSE tg
            /\ threads' = [threads EXCEPT ![th] =
                  CASE pc = "start" ->
                         Call(@, "onAny", Frame("OnAllCompleted", 0, "lock", "close(done)", "", 0))
                    [] pc = "onAny" ->
                         Call(@, "runAll", Frame("OnAnyFailed", 0, "lock", "groupErr", "", 0))
                    [] pc = "runAll" -> Call(@, "select", NoLocals("RunAll", 0, "rlock"))
                    [] pc = "select" /\ c = "timeout" ->
                         Call(@, "timedout", NoLocals("StopAll", 0, "rlock"))
                    [] OTHER -> Return(@)]
            /\ obs' = [obs EXCEPT !.waited = CASE pc = "select" /\ c = "done" -> tg.groupErr
                                               [] pc = "timedout" -> ErrTimeout
                                               [] OTHER -> @]
    /\ UNCHANGED <<cfg, tc, task, wp, calls>>

\* the host program calls fn on the group
GroupCalls(h, fn, pc) ==
    /\ ~wp.panicked /\ ~Busy(h)
    /\ \A o \in HostThreads : o < h => Busy(o)
    /\ calls.group[fn] < MaxGroupCalls
    /\ calls' = [calls EXCEPT !.group[fn] = @ + 1]
    /\ threads' = [threads EXCEPT ![h] = <<NoLocals(fn, 0, pc)>>]
    /\ UNCHANGED <<cfg, tc, tg, task, wp, obs>>

RunAll(h) == GroupCalls(h, "RunAll", "rlock")
StopAll(h) == GroupCalls(h, "StopAll", "rlock")
RunAndWait(h) == GroupCalls(h, "RunAndWait", "start")

----------------------------------------------------------------------------
(* A TaskGroup driven by the host program *)

\* a goroutine's next step in the code of Task or of the group
GroupStep(th) ==
    \/ SetStateSwap(th)
    \/ OnStateChange(th)
    \/ RunCheck(th)
    \/ RunDeps(th)
    \/ RunSpawn(th)
    \/ StopCheck(th)
    \/ ExecuteTaskCore(th)
    \/ JobReturn(th)
    \/ HandleJobResult(th)
    \/ GroupLock(th)
    \/ GroupRLock(th)
    \/ GroupFailed(th)
    \/ GroupAll(th)
    \/ GroupLoop(th)
    \/ GroupReturn(th)
    \/ RunAndWaitStep(th)

\* groups of no, one or two Tasks of one run; the job of the first succeeds or
\* fails
GroupScenarios ==
    {[Scenario(SubSeq(<<[DefaultTask("t1") EXCEPT !.job = j], DefaultTask("t2")>>, 1, n),
               1, << >>) EXCEPT !.group = SubSeq(<<1, 2>>, 1, n)] :
        j \in {"ok", "fail"}, n \in 0 .. 2}

GroupInit == \E c \in GroupScenarios : InitWith(c)

\* the host program calls RunAll, StopAll and RunAndWait on the group, and Run
\* on its Tasks
GroupNext ==
    \/ \E h \in HostThreads : RunAll(h)
    \/ \E h \in HostThreads : StopAll(h)
    \/ \E h \in HostThreads : RunAndWait(h)
    \/ \E h \in HostThreads, t \in Tasks : calls.per[t]["Run"] = 0 /\ ApiRun(h, t)
    \/ \E th \in ThreadIds : GroupStep(th)

GroupSpec == GroupInit /\ [][GroupNext]_vars

\* the Go scheduler runs every goroutine that can take a step
FairGroupSpec == GroupSpec /\ WF_vars(\E th \in ThreadIds : GroupStep(th))

\* a goroutine is inside function fn of the group
Inside(fn) ==
    \E th \in ThreadIds : \E k \in 1 .. Len(threads[th]) : threads[th][k].fn = fn

\* RunAndWait has returned
Waited == obs.waited # "unset"

\* C28: RunAndWait(timeout) always returns
C28_RunAndWaitReturns == Inside("RunAndWait") ~> Waited

\* fn is executing and RunAndWait, which holds the mutex for good, was not called
Alone(fn) == Inside(fn) /\ calls.group["RunAndWait"] = 0

\* fn has returned, or RunAndWait was called
Back(fn) == ~Inside(fn) \/ calls.group["RunAndWait"] > 0

\* C29: RunAll() calls Run() on every Task of the group and returns, and
\* StopAll() calls Stop() on every Task and returns
C29_RunAllStopAllReturn ==
    /\ Alone("RunAll") ~> Back("RunAll")
    /\ Alone("StopAll") ~> Back("StopAll")

\* C30: no state-change callback of a Task and no callback of the group is
\* called by a goroutine that holds the mutex of the TaskGroup (the locks of the
\* Task are released before setState and updateDependencyStatus call back)
C30_NoCallbackUnderLock == obs.underLock = {}

----------------------------------------------------------------------------
(* The priority queue on its own: Enqueue and Dequeue in any order *)

\* three Tasks of any priorities, as in TestPriorityQueuePriority
QueueScenarios ==
    {Scenario(<<Prio("a", p1), Prio("b", p2), Prio("c", p3)>>, 1, << >>) :
        p1 \in {PriorityLow, PriorityNormal, PriorityHigh},
        p2 \in {PriorityLow, PriorityNormal, PriorityHigh},
        p3 \in {PriorityLow, PriorityNormal, PriorityHigh}}

QueueInit == \E c \in QueueScenarios : InitWith(c)

\* pq.Enqueue(t)
QueueEnqueue(t) ==
    /\ t \in Used /\ Len(wp.taskQueue) < MaxQueue
    /\ wp' = [wp EXCEPT !.taskQueue = Enqueue(@, t)]
    /\ UNCHANGED <<cfg, tc, tg, task, threads, calls, obs>>

\* pq.Dequeue(): nil when pq.Len() == 0, else the task of heap.Pop's item
QueueDequeue ==
    /\ IF Len(wp.taskQueue) = 0
       THEN /\ obs' = [obs EXCEPT !.deq = [flip |-> ~@.flip, task |-> 0]]
            /\ UNCHANGED wp
       ELSE /\ obs' = [obs EXCEPT !.deq = [flip |-> ~@.flip,
                                           task |-> Dequeue(wp.taskQueue).task]]
            /\ wp' = [wp EXCEPT !.taskQueue = Dequeue(wp.taskQueue).items]
    /\ UNCHANGED <<cfg, tc, tg, task, threads, calls>>

QueueNext ==
    \/ \E t \in Tasks : QueueEnqueue(t)
    \/ QueueDequeue

QueueSpec == QueueInit /\ [][QueueNext]_vars

\* how many items of q are item
Count(q, item) == Cardinality({k \in 1 .. Len(q) : q[k] = item})

\* C24: a Dequeue returns nil exactly when the queue is empty, and leaves it
\* empty; otherwise it removes one item and returns its task, and the
\* priority the item was enqueued with is at least that of every item left
C24_DequeueTakesHighest ==
    [][obs.deq.flip # obs'.deq.flip =>
          IF wp.taskQueue = << >>
          THEN obs'.deq.task = 0 /\ wp'.taskQueue = << >>
          ELSE /\ obs'.deq.task # 0
               /\ \E k \in 1 .. Len(wp.taskQueue) :
                     LET item == wp.taskQueue[k] IN
                     /\ item.task = obs'.deq.task
                     /\ Len(wp'.taskQueue) = Len(wp.taskQueue) - 1
                     /\ \A j \in 1 .. Len(wp.taskQueue) :
                           Count(wp'.taskQueue, wp.taskQueue[j])
                             = Count(wp.taskQueue, wp.taskQueue[j])
                               - (IF wp.taskQueue[j] = item THEN 1 ELSE 0)
                     /\ \A j \in 1 .. Len(wp'.taskQueue) :
                           wp'.taskQueue[j].priority <= item.priority]_vars

\* a Dequeue returned a Task of high priority and left one of normal and one
\* of low priority in the queue, the low one at the root's first child
C24_Witness ==
    /\ obs.deq.task # 0 /\ Opt(obs.deq.task).priority = PriorityHigh
    /\ Len(wp.taskQueue) = 2
    /\ wp.taskQueue[1].priority = PriorityNormal
    /\ wp.taskQueue[2].priority = PriorityLow

-----------------------------------------------------------------------------
(* TaskContext: the values, the parent and the RWMutex of each object.  A
   frame of a TaskContext method has the object in t, the key or the overwrite
   flag in a, the result of the last call it made in b, and CopyTo's target in
   i.  The one key is "x"; a result is "x" for found / not empty and "" else *)

\* sync.RWMutex: RLock() waits while a goroutine holds or waits for Lock()
CtxRLock(th) ==
    /\ Busy(th)
    /\ Top(th).fn \in {"Get", "GetAll", "Filter", "Validate", "RequiredKeys", "CopyTo"}
    /\ Top(th).pc = "rlock"
    /\ tc[Top(th).t].writer = 0
    /\ tc' = [tc EXCEPT ![Top(th).t].readers[th] = @ + 1]
    /\ threads' = [threads EXCEPT ![th] = Goto(@, "body")]
    /\ UNCHANGED <<cfg, tg, task, wp, calls, obs>>

\* the code of a reading method after tc.mutex.RLock(): Get looks the key up
\* and asks the parent; GetAll asks the parent first; the others call
\* tc.GetAll()
CtxBody(th) ==
    /\ Busy(th)
    /\ Top(th).pc = "body"
    /\ LET f == Top(th)
       IN threads' = [threads EXCEPT ![th] =
            CASE f.fn = "Get" ->
                    IF f.a \in tc[f.t].values
                    THEN Goto([@ EXCEPT ![Len(@)].b = "x"], "runlock")
                    ELSE IF Parent(f.t) # 0
                    THEN Call(@, "runlock", Frame("Get", Parent(f.t), "rlock", f.a, "", 0))
                    ELSE Goto([@ EXCEPT ![Len(@)].b = ""], "runlock")
              [] f.fn = "GetAll" ->
                    IF Parent(f.t) # 0
                    THEN Call(@, "merge", NoLocals("GetAll", Parent(f.t), "rlock"))
                    ELSE Goto(@, "merge")
              [] OTHER -> Call(@, "use", NoLocals("GetAll", f.t, "rlock"))]
    /\ UNCHANGED <<cfg, tc, tg, task, wp, calls, obs>>

\* GetAll: the values of tc over those of the parent
CtxMerge(th) ==
    /\ Busy(th)
    /\ Top(th).pc = "merge"
    /\ threads' = [threads EXCEPT ![th] =
            Goto([@ EXCEPT ![Len(@)].b = IF tc[Top(th).t].values # {} THEN "x" ELSE @],
                 "runlock")]
    /\ UNCHANGED <<cfg, tc, tg, task, wp, calls, obs>>

\* Filter, Validate, RequiredKeys and CopyTo go through allValues; CopyTo
\* calls target.Get(k) unless overwrite, and target.Set(k, v)
CtxUse(th) ==
    /\ Busy(th)
    /\ Top(th).pc = "use"
    /\ LET f == Top(th)
       IN threads' = [threads EXCEPT ![th] =
            IF f.fn # "CopyTo" \/ f.b = ""
            THEN Goto(@, "runlock")
            ELSE IF f.a = "keep"
            THEN Call(@, "exists", Frame("Get", f.i, "rlock", "x", "", 0))
            ELSE Call(@, "runlock", Frame("Set", f.i, "lock", "x", "", 0))]
    /\ UNCHANGED <<cfg, tc, tg, task, wp, calls, obs>>

\* CopyTo without overwrite: continue when the target has the key
CtxExists(th) ==
    /\ Busy(th)
    /\ Top(th).pc = "exists"
    /\ threads' = [threads EXCEPT ![th] =
            IF Top(th).b = "x"
            THEN Goto(@, "runlock")
            ELSE Call(@, "runlock", Frame("Set", Top(th).i, "lock", "x", "", 0))]
    /\ UNCHANGED <<cfg, tc, tg, task, wp, calls, obs>>

\* the method returns its result to its caller
CtxReturn(s) ==
    IF Len(s) = 1 THEN << >> ELSE [ButLast(s) EXCEPT ![Len(s) - 1].b = s[Len(s)].b]

\* defer tc.mutex.RUnlock()
CtxRUnlock(th) ==
    /\ Busy(th)
    /\ Top(th).pc = "runlock"
    /\ tc' = [tc EXCEPT ![Top(th).t].readers[th] = @ - 1]
    /\ threads' = [threads EXCEPT ![th] = CtxReturn(@)]
    /\ UNCHANGED <<cfg, tg, task, wp, calls, obs>>

\* Set: tc.mutex.Lock() shuts out the other writers and the new readers ...
CtxLock(th) ==
    /\ Busy(th)
    /\ Top(th).fn = "Set"
    /\ Top(th).pc = "lock"
    /\ tc[Top(th).t].writer = 0
    /\ tc' = [tc EXCEPT ![Top(th).t].writer = th]
    /\ threads' = [threads EXCEPT ![th] = Goto(@, "acquire")]
    /\ UNCHANGED <<cfg, tg, task, wp, calls, obs>>

\* ... and returns when every reader has left; tc.values[key] = value
CtxAcquire(th) ==
    /\ Busy(th)
    /\ Top(th).pc = "acquire"
    /\ \A r \in HostThreads : tc[Top(th).t].readers[r] = 0
    /\ tc' = [tc EXCEPT ![Top(th).t].held = TRUE,
                        ![Top(th).t].values = @ \cup {Top(th).a}]
    /\ threads' = [threads EXCEPT ![th] = Goto(@, "unlock")]
    /\ UNCHANGED <<cfg, tg, task, wp, calls, obs>>

\* defer tc.mutex.Unlock()
CtxUnlock(th) ==
    /\ Busy(th)
    /\ Top(th).fn = "Set"
    /\ Top(th).pc = "unlock"
    /\ tc' = [tc EXCEPT ![Top(th).t].writer = 0, ![Top(th).t].held = FALSE]
    /\ threads' = [threads EXCEPT ![th] = ButLast(@)]
    /\ UNCHANGED <<cfg, tg, task, wp, calls, obs>>

\* a goroutine's next step in the code of TaskContext
ContextStep(th) ==
    \/ CtxRLock(th)
    \/ CtxBody(th)
    \/ CtxMerge(th)
    \/ CtxUse(th)
    \/ CtxExists(th)
    \/ CtxRUnlock(th)
    \/ CtxLock(th)
    \/ CtxAcquire(th)
    \/ CtxUnlock(th)

\* the host program calls a method of a TaskContext
ContextCalls(h, f) ==
    /\ ~Busy(h)
    /\ \A o \in HostThreads : o < h => Busy(o)
    /\ calls.context < MaxContextCalls
    /\ calls' = [calls EXCEPT !.context = @ + 1]
    /\ threads' = [threads EXCEPT ![h] = <<f>>]
    /\ UNCHANGED <<cfg, tc, tg, task, wp, obs>>

Set(h, n) == ContextCalls(h, Frame("Set", n, "lock", "x", "", 0))
Get(h, n) == ContextCalls(h, Frame("Get", n, "rlock", "x", "", 0))
GetAll(h, n) == ContextCalls(h, NoLocals("GetAll", n, "rlock"))
Filter(h, n) == ContextCalls(h, NoLocals("Filter", n, "rlock"))
Validate(h, n) == ContextCalls(h, NoLocals("Validate", n, "rlock"))
RequiredKeys(h, n) == ContextCalls(h, NoLocals("RequiredKeys", n, "rlock"))
CopyTo(h, n, target, overwrite) ==
    ContextCalls(h, Frame("CopyTo", n, "rlock", IF overwrite THEN "over" ELSE "keep", "", target))

\* a TaskContext alone or with a parent
ContextScenarios == {[Scenario(<< >>, 1, << >>) EXCEPT !.parent = p] : p \in BOOLEAN}

ContextInit == \E c \in ContextScenarios : InitWith(c)

\* the host program's goroutines call the methods of the two TaskContexts
ContextNext ==
    \/ \E h \in HostThreads, n \in Nodes : Set(h, n)
    \/ \E h \in HostThreads, n \in Nodes : Get(h, n)
    \/ \E h \in HostThreads, n \in Nodes : GetAll(h, n)
    \/ \E h \in HostThreads, n \in Nodes : Filter(h, n)
    \/ \E h \in HostThreads, n \in Nodes : Validate(h, n)
    \/ \E h \in HostThreads, n \in Nodes : RequiredKeys(h, n)
    \/ \E h \in HostThreads, n \in Nodes, target \in Nodes, overwrite \in BOOLEAN :
            CopyTo(h, n, target, overwrite)
    \/ \E th \in HostThreads : ContextStep(th)

ContextSpec == ContextInit /\ [][ContextNext]_vars

\* the Go scheduler runs every goroutine that can take a step
FairContextSpec == ContextSpec /\ WF_vars(\E th \in HostThreads : ContextStep(th))

\* the TaskContexts whose read lock goroutine th holds
ReadLocked(th) == {n \in Nodes : tc[n].readers[th] > 0}

\* C31: walking the parent chain, a goroutine holds the read lock of at most
\* one TaskContext at a time, and it never acquires the lock of a TaskContext
\* whose lock it holds already
C31_OneLockAtATime ==
    \A th \in HostThreads :
        /\ Cardinality(ReadLocked(th)) <= 1
        /\ \A n \in Nodes :
            /\ tc[n].readers[th] <= 1
            /\ ~(tc[n].writer = th /\ tc[n].readers[th] > 0)

\* goroutine h is inside a method of a TaskContext
InContext(h) == Busy(h)

\* the method goroutine h called has returned
OutOfContext(h) == ~Busy(h)

\* C39: Set running concurrently with Filter, CopyTo, Validate, RequiredKeys or
\* Get on one TaskContext: every call returns, also a CopyTo to the source itself
C39_ContextCallsReturn == \A h \in HostThreads : InContext(h) ~> OutOfContext(h)

====
